---- MODULE Spec2Model ----
(***************************************************************************)
(* A model of ws-server-wrapper-go: the Server (registry), its Clients     *)
(* (connections), the handler tables, the read loop's dispatch of inbound  *)
(* messages, request/response correlation and the close paths.             *)
(*                                                                         *)
(* Every critical section of the code (Lock ... Unlock with no blocking    *)
(* call inside) is one action.  Calls into the transport (ReadMessage,     *)
(* WriteMessage, Close) and into user handlers are actions of their own.   *)
(***************************************************************************)
EXTENDS Integers, Sequences, FiniteSets, TLC

(***************************************************************************)
(* Bounds of the model.                                                    *)
(***************************************************************************)
MaxClients == 2
MaxReads == 2
MaxRegs == 2
MaxRequests == 2
MaxUserCloses == 2
MaxServerCloses == 2
MaxEmits == 2

Clients == 1..MaxClients
RegIds == 1..MaxRegs
Emitters == 1..MaxEmits
Callers == 1..MaxRequests
ReqIds == 1..MaxRequests

(***************************************************************************)
(* Values.                                                                 *)
(***************************************************************************)
Nil == "nil"
NoErr == "<nil>"
Server == 0
Owners == Clients \cup {Server}

MainChannel == ""
ChannelNames == {MainChannel, "io"}
EventNames == {"echo", "close"}

EventOpen == "open"
EventConnect == "connect"
EventError == "error"
EventMessage == "message"
EventClose == "close"
EventDisconnect == "disconnect"

IsReservedEvent(eventName) ==
    eventName \in {EventOpen, EventConnect, EventError, EventMessage,
                   EventClose, EventDisconnect}

\* handlerName{Channel, Event}
handlerName(channel, event) == <<channel, event>>
AllEventNames == EventNames \cup {EventOpen, EventConnect, EventError,
                                  EventMessage, EventDisconnect}
Keys == {handlerName(ch, ev) : ch \in ChannelNames, ev \in AllEventNames}

StatusGoingAway == "StatusGoingAway"
StatusInternalError == "StatusInternalError"
StatusNormalClosure == "StatusNormalClosure"

(***************************************************************************)
(* Go values that travel in messages and handler calls: a type name, a     *)
(* string payload, a numeric payload (float64 in tenths, int in units) and *)
(* the elements of a slice or the "message" member of an object.           *)
(***************************************************************************)
V(t, s, n, e) == [t |-> t, s |-> s, n |-> n, e |-> e]
NilVal == V("nil", "", 0, <<>>)
StrV(s) == V("string", s, 0, <<>>)
FloatV(n) == V("float64", "", n, <<>>)
IntV(n) == V("int", "", n, <<>>)
Obj(members) == V("object", "", 0, members)
Slice(t, elems) == V(t, "", 0, elems)

NumericTypes == {"int", "float64"}
SliceTypes == {"[]int", "[]float64"}
Elem(t) == IF t = "[]int" THEN "int" ELSE IF t = "[]float64" THEN "float64" ELSE "none"
Kind(t) == IF t \in SliceTypes THEN "slice" ELSE t

\* reflect.Type.ConvertibleTo
ConvertibleTo(from, to) ==
    \/ from = to
    \/ from \in NumericTypes /\ to \in NumericTypes
    \/ from = "int" /\ to = "string"

\* a Convert that hands the argument over as it arrived
ConvertNothing(v, to) == v

\* reflect.Value.Convert for the scalar conversions above
Convert(v, to) ==
    IF v.t = to THEN v
    ELSE IF v.t = "float64" /\ to = "int" THEN IntV(v.n \div 10)
    ELSE IF v.t = "int" /\ to = "float64" THEN FloatV(v.n * 10)
    ELSE StrV("rune")

(***************************************************************************)
(* Handlers.  A handler value is a registered function: the id of the      *)
(* registration that stored it, its parameter types and its result types.  *)
(* What the body of a handler does is the application's: it either fails   *)
(* (returns an error) or returns its first argument and a nil error.       *)
(***************************************************************************)
contextType == "context.Context"
errorType == "error"

Handler(id, in, out) == [id |-> id, in |-> in, out |-> out]
NoHandler == Handler(0, <<>>, <<>>)

OpenHandler == <<"*Client">>
ErrorHandler == <<"*Client", "error">>
MessageHandler == <<"*Client", "Message">>
CloseHandler == <<"*Client", "StatusCode", "string">>

\* handler.(T) for the reserved handler types: func(...) with no results
IsFuncType(h, params) == h.in = params /\ h.out = <<>>

\* t.Kind() == reflect.Func; a handler that is no function is written as the
\* handler with the single "parameter" NotFunc
NotFunc == "value"
IsFunc(h) == h.in # <<NotFunc>>

\* a checkHandler that accepts everything
checkNothing(channel, eventName, h) == ""

\* checkHandler: "" when the handler is accepted, else the error text
checkHandler(channel, eventName, h) ==
    IF h = NoHandler THEN ""
    ELSE IF channel = MainChannel /\ eventName \in {EventOpen, EventConnect}
    THEN IF IsFuncType(h, OpenHandler) THEN ""
         ELSE "handler '" \o eventName \o "' must be func(*Client)"
    ELSE IF channel = MainChannel /\ eventName = EventError
    THEN IF IsFuncType(h, ErrorHandler) THEN ""
         ELSE "handler '" \o eventName \o "' must be func(*Client, error)"
    ELSE IF channel = MainChannel /\ eventName = EventMessage
    THEN IF IsFuncType(h, MessageHandler) THEN ""
         ELSE "handler '" \o eventName \o "' must be func(*Client, Message)"
    ELSE IF channel = MainChannel /\ eventName \in {EventClose, EventDisconnect}
    THEN IF IsFuncType(h, CloseHandler) THEN ""
         ELSE "handler '" \o eventName \o "' must be func(*Client, StatusCode, string)"
    ELSE IF ~IsFunc(h)
    THEN "handler must be a function"
    ELSE IF Len(h.out) \notin {1, 2}
    THEN "handler should return one or two values"
    ELSE IF h.out[Len(h.out)] # errorType
    THEN "handler's last output type must implement error"
    ELSE ""

\* what the body of a handler returns for converted inputs ins (context
\* excluded): <<result, error text>>
HandlerBody(h, ins, fails) ==
    IF fails THEN <<NilVal, "uh oh!">>
    ELSE IF Len(h.out) = 2 /\ Len(ins) > 0 THEN <<ins[1], NoErr>>
    ELSE <<NilVal, NoErr>>

Mismatch == <<V("mismatch", "", 0, <<>>)>>
ZeroValue == <<V("zero Value", "", 0, <<>>)>>
ZeroValuePanic == "reflect: call of reflect.Value.Type on zero Value"

\* a Type() that answers for every argument
TypeNeverPanics(arg) == FALSE

\* reflect.ValueOf(arg).Type(): a nil interface has no type and the call panics
TypePanics(arg) == arg = NilVal

RECURSIVE ConvertArgs(_, _, _)
\* the argument loop of callHandler, first argument first: the converted
\* inputs, Mismatch at the first argument that does not convert, or ZeroValue
\* at the first nil argument
ConvertArgs(arguments, params, i) ==
    IF i > Len(arguments) THEN <<>>
    ELSE LET argT == arguments[i].t
             handlerArgT == params[i]
             rest == ConvertArgs(arguments, params, i + 1)
             then(in) == IF rest \in {Mismatch, ZeroValue} THEN rest
                         ELSE <<in>> \o rest
         IN  IF TypePanics(arguments[i]) THEN ZeroValue
             ELSE IF ConvertibleTo(argT, handlerArgT)
             THEN then(Convert(arguments[i], handlerArgT))
             ELSE IF Kind(argT) = "slice" /\ Kind(handlerArgT) = "slice"
                     /\ ConvertibleTo(Elem(argT), Elem(handlerArgT))
             THEN then(Slice(handlerArgT,
                             [j \in 1..Len(arguments[i].e) |->
                                 Convert(arguments[i].e[j], Elem(handlerArgT))]))
             ELSE Mismatch

\* callHandler: [called, res, err, panic]; ins are the values the handler was
\* called with
callHandler(h, arguments, fails) ==
    LET numIn == Len(h.in)
        hasContext == numIn > 0 /\ h.in[1] = contextType
        argOffset == IF hasContext THEN 1 ELSE 0
        params == SubSeq(h.in, argOffset + 1, numIn)
        fail(text) == [called |-> FALSE, res |-> NilVal, err |-> text,
                       panic |-> "", ins |-> <<>>]
    IN  IF Len(arguments) # numIn - argOffset
        THEN fail("incorrect number of arguments")
        ELSE IF Len(h.out) \notin {1, 2}
        THEN fail("handler should return one or two values")
        ELSE IF h.out[Len(h.out)] # errorType
        THEN fail("handler's last output type must implement error")
        ELSE LET ins == ConvertArgs(arguments, params, 1)
             IN  IF ins = ZeroValue
                 THEN [fail("") EXCEPT !.panic = ZeroValuePanic]
                 ELSE IF ins = Mismatch
                 THEN fail("argument type mismatch")
                 ELSE LET outs == HandlerBody(h, ins, fails)
                      IN  [called |-> TRUE,
                           res |-> IF Len(h.out) = 2 THEN outs[1] ELSE NilVal,
                           err |-> outs[2],
                           panic |-> "",
                           ins |-> ins]

(***************************************************************************)
(* Messages.  i = 0 stands for a nil RequestID; ign is the IgnoreIfFalse   *)
(* pointer: "nil", "true" or "false".                                      *)
(***************************************************************************)
Message(c, a, i, d, e, js, ign) ==
    [c |-> c, a |-> a, i |-> i, d |-> d, e |-> e, js |-> js, ign |-> ign]
NoMessage == Message("", <<>>, 0, NilVal, NilVal, FALSE, "nil")

\* Message.EventName
EventName(m) ==
    IF Len(m.a) < 1 THEN ""
    ELSE IF m.a[1].t # "string" THEN ""
    ELSE m.a[1].s

\* Message.HandlerArguments
HandlerArguments(m) ==
    IF Len(m.a) < 2 THEN <<>> ELSE SubSeq(m.a, 2, Len(m.a))

\* messageResponse{Data, Error}
messageResponse(data, err) == [Data |-> data, Error |-> err]

\* a Response that hands the data over beside the error
ResponseKeepsData(m) ==
    messageResponse(m.d, IF m.e = NilVal THEN NoErr ELSE "response error")

\* Message.Response
Response(m) ==
    IF m.i = 0 THEN messageResponse(NilVal, "message is not a response")
    ELSE IF m.e = NilVal THEN messageResponse(m.d, NoErr)
    ELSE IF m.js
    THEN IF m.e.t # "object"
         THEN messageResponse(NilVal,
                  "response is a malformed JavaScript error: not an object")
         ELSE IF Len(m.e.e) = 0 \/ m.e.e[1].t # "string"
         THEN messageResponse(NilVal,
                  "response is a malformed JavaScript error: message key is not a string")
         ELSE messageResponse(NilVal, m.e.e[1].s)
    ELSE IF m.e.t # "string"
    THEN messageResponse(NilVal, "response error is not a string")
    ELSE messageResponse(NilVal, m.e.s)

(***************************************************************************)
(* State.                                                                  *)
(***************************************************************************)
VARIABLES
    wire,               \* wire[c]: the requests the read loop of c has read and the
                        \* responses it has written, in the order of the calls
    clients,            \* Server.clients: [isNil, set]; isNil once the server is closed
    handlers,           \* handlers[o][key]: the persistent table of owner o
    handlersOnce,       \* handlersOnce[o][key]: the once table of owner o
    requestID,          \* Server.requestID
    requestResponseCh,  \* Server.requestResponseCh: request id -> the channel (named
                        \* by the caller that made it), 0 when the id is absent
    respCh,             \* respCh[r]: the channel made by caller r: [buf, closed] and
                        \* sent, the number of values ever sent on it
    nextClient,         \* clients 1..nextClient have been created by Accept
    conn,               \* Client.conn: "conn" or Nil
    ctxCause,           \* cause of the client's cancelled context, NoErr while live
    dataMu,             \* Client.dataMu: "free" or "locked"
    requestMu,          \* Server.requestMu: "free" or "locked"
    transport,          \* the transport of each client: the calls of its Close
                        \* and the status the last one was given
    rl,                 \* the read loop of each client
    caller,             \* the goroutines calling ClientChannel.Request
    closing,            \* the running calls of Client.Close / closeWithoutLock
    sclose,             \* the goroutines calling Server.Close
    accepting,          \* Accept calls between adding the client and emitOpen
    acceptErr,          \* the result of the last Accept
    regs,               \* number of handlers stored by On / Once so far
    regErr,             \* the error On / Once last panicked with
    invoked,            \* invoked[id]: calls of the handler stored by registration id
    fired,              \* fired[c]: the lifecycle observers called about client c, in order
    nread,              \* number of messages the remote ends have sent so far
    emitter,            \* the goroutines calling ClientChannel.Emit
    bcast,              \* the goroutine calling ServerChannel.Emit
    panicked            \* the runtime panic that ended the program, "" if none

srvVars == <<clients, requestID, requestResponseCh, requestMu, nextClient>>
tableVars == <<handlers, handlersOnce>>
clientVars == <<conn, ctxCause, dataMu, transport>>
threadVars == <<rl, caller, closing, sclose, accepting>>
emitVars == <<emitter, bcast>>
logVars == <<acceptErr, regs, regErr, invoked, fired, panicked, nread>>
vars == <<srvVars, tableVars, clientVars, threadVars, logVars, respCh, emitVars, wire>>

EmptyTable == [k \in Keys |-> NoHandler]

CloseThreads == {<<"rl", c>> : c \in Clients}
                \cup {<<"user", k>> : k \in 1..MaxUserCloses}
                \cup {<<"server", k>> : k \in 1..MaxServerCloses}

NoResult ==
    [called |-> FALSE, res |-> NilVal, err |-> NoErr, panic |-> "", ins |-> <<>>]

IdleReadLoop ==
    [pc |-> "none", conn |-> Nil, msg |-> NoMessage, h |-> NoHandler,
     src |-> "none", cHad |-> FALSE, result |-> NoResult, reply |-> NoMessage,
     seen |-> "none", rch |-> 0, calls |-> 0, wrote |-> 0, err |-> NoErr]

NoFrom == [kind |-> "none", m |-> NoMessage, c |-> 0]
NoOutcome == [data |-> NilVal, err |-> NoErr, via |-> "none", from |-> NoFrom]

\* by is the client whose read loop is running the handler that made the
\* call, 0 for a call made by any other goroutine
IdleCaller ==
    [pc |-> "idle", c |-> 0, ch |-> "", ev |-> "", conn |-> Nil, id |-> 0,
     ctx |-> NoErr, out |-> NoOutcome, by |-> 0]

IdleClose == [pc |-> "idle", c |-> 0, status |-> "", err |-> NoErr]

\* ClientChannel.Emit: at pc "write" the call of conn.WriteMessage is in
\* progress; calls counts the calls of WriteMessage
IdleEmitter ==
    [pc |-> "idle", c |-> 0, ch |-> "", ev |-> "", calls |-> 0, err |-> NoErr]

\* ServerChannel.Emit: todo are the clients the range has not reached, cur the
\* client being written to, called the clients WriteMessage was called for, got
\* the clients whose write succeeded, errs the ClientErrors appended, in order
\* (c = 0 for `Client: nil`)
IdleBroadcast ==
    [pc |-> "idle", ch |-> "", ev |-> "", live |-> {}, todo |-> {}, cur |-> 0,
     called |-> {}, got |-> {}, errs |-> <<>>]

\* Server.Close: clients is its local copy of the live set, todo the clients the
\* loop has not reached, errs what closeWithoutLock returned, in order
IdleServerClose ==
    [pc |-> "idle", clients |-> {}, todo |-> {}, clientErr |-> NoErr, errs |-> <<>>]

Init ==
    /\ clients = [isNil |-> FALSE, set |-> {}]
    /\ handlers = [o \in Owners |-> EmptyTable]
    /\ handlersOnce = [o \in Owners |-> EmptyTable]
    /\ requestID = 0
    /\ requestResponseCh = [i \in ReqIds |-> 0]
    /\ requestMu = "free"
    /\ respCh = [r \in Callers |-> [buf |-> <<>>, closed |-> FALSE, sent |-> 0]]
    /\ nextClient = 0
    /\ conn = [c \in Clients |-> Nil]
    /\ ctxCause = [c \in Clients |-> NoErr]
    /\ dataMu = [c \in Clients |-> "free"]
    /\ transport = [c \in Clients |-> [closes |-> 0, status |-> ""]]
    /\ rl = [c \in Clients |-> IdleReadLoop]
    /\ caller = [r \in Callers |-> IdleCaller]
    /\ closing = [t \in CloseThreads |-> IdleClose]
    /\ sclose = [k \in 1..MaxServerCloses |-> IdleServerClose]
    /\ accepting = [c \in Clients |-> "none"]
    /\ acceptErr = NoErr
    /\ regs = 0
    /\ regErr = ""
    /\ invoked = [i \in RegIds |-> 0]
    /\ fired = [c \in Clients |-> <<>>]
    /\ nread = 0
    /\ panicked = ""
    /\ emitter = [e \in Emitters |-> IdleEmitter]
    /\ bcast = IdleBroadcast
    /\ wire = [c \in Clients |-> <<>>]

Created == 1..nextClient

\* Server.clientsMu is held by ServerChannel.Emit from its Lock to its return;
\* every other section under it is one step
ClientsMuHeld == bcast.pc \in {"loop", "write"}

(***************************************************************************)
(* emitReserved: the handlers collected under the owner's lock for the     *)
(* given event names of the main channel, in the order they are called,    *)
(* and the once table with the collected entries deleted.                  *)
(***************************************************************************)
RECURSIVE emitCollect(_, _, _)
emitCollect(o, eventNames, i) ==
    IF i > Len(eventNames) THEN <<>>
    ELSE LET key == handlerName(MainChannel, eventNames[i])
             p == handlers[o][key]
             q == handlersOnce[o][key]
         IN  (IF p # NoHandler THEN <<p>> ELSE <<>>)
             \o (IF q # NoHandler THEN <<q>> ELSE <<>>)
             \o emitCollect(o, eventNames, i + 1)

emitOnceAfter(o, eventNames) ==
    [k \in Keys |->
        IF \E i \in 1..Len(eventNames) : k = handlerName(MainChannel, eventNames[i])
        THEN NoHandler ELSE handlersOnce[o][k]]

\* the ids of the collected handlers that the caller's type assertion accepts
emitCalled(o, eventNames, type) ==
    LET hs == emitCollect(o, eventNames, 1)
        ok == {i \in 1..Len(hs) : IsFuncType(hs[i], type)}
    IN  {hs[i].id : i \in ok}

\* an emitReserved that calls no handler
emitNothing(o, c, eventNames, type) == UNCHANGED <<handlers, handlersOnce, fired>>

\* one emitReserved call on owner o about client c
emitReserved(o, c, eventNames, type) ==
    /\ handlersOnce' = [handlersOnce EXCEPT ![o] = emitOnceAfter(o, eventNames)]
    /\ fired' = IF emitCalled(o, eventNames, type) = {} THEN fired
                 ELSE [fired EXCEPT ![c] =
                        Append(@, [ev |-> eventNames[1], owner |-> o,
                                   hs |-> emitCalled(o, eventNames, type)])]
    /\ UNCHANGED handlers

(***************************************************************************)
(* Server.Accept                                                           *)
(***************************************************************************)
\* an Accept that never finds the server closed
NeverRefused(live) == FALSE

\* `if s.clients == nil`
AcceptRefused(live) == live.isNil

\* the section under clientsMu, newClient and `go client.readMessages()`
Accept ==
    /\ panicked = ""
    /\ UNCHANGED <<emitVars, wire>>
    /\ ~ClientsMuHeld
    /\ IF AcceptRefused(clients)
       THEN /\ acceptErr' = "server is closed and cannot accept connections"
            /\ UNCHANGED <<srvVars, tableVars, clientVars, threadVars, respCh,
                           regs, regErr, invoked, fired, panicked, nread>>
       ELSE /\ nextClient < MaxClients
            /\ LET c == nextClient + 1
               IN  /\ nextClient' = c
                   /\ clients' = [clients EXCEPT !.set = @ \cup {c}]
                   /\ conn' = [conn EXCEPT ![c] = "conn"]
                   /\ rl' = [rl EXCEPT ![c].pc = "start"]
                   /\ accepting' = [accepting EXCEPT ![c] = "open"]
            /\ acceptErr' = NoErr
            /\ UNCHANGED <<requestID, requestResponseCh, requestMu, tableVars, ctxCause, dataMu,
                           transport, caller, closing, sclose, respCh,
                           regs, regErr, invoked, fired, panicked, nread>>

\* s.emitOpen(client)
AcceptEmitOpen(c) ==
    /\ panicked = ""
    /\ UNCHANGED <<emitVars, wire>>
    /\ accepting[c] = "open"
    /\ emitReserved(Server, c, <<EventOpen, EventConnect>>, OpenHandler)
    /\ accepting' = [accepting EXCEPT ![c] = "done"]
    /\ UNCHANGED <<srvVars, clientVars, rl, caller, closing, sclose, respCh,
                   acceptErr, regs, regErr, invoked, panicked, nread>>

(***************************************************************************)
(* ClientChannel.On / Once and ServerChannel.On / Once                     *)
(***************************************************************************)
HEcho == <<<<"string">>, <<"string", errorType>>>>
HCloseObserver == <<CloseHandler, <<>>>>
HNil == <<<<"nil">>, <<>>>>

\* the registrations the application makes: <<channel, event, function type>>
Registrations ==
    {<<MainChannel, "echo", HEcho>>,
     <<MainChannel, "echo", HNil>>,
     <<"io", "echo", HEcho>>,
     <<MainChannel, EventClose, HCloseObserver>>,
     <<MainChannel, EventClose, HEcho>>}

\* a registration that keeps the entry a key already has
RegisterIfAbsent(table, key, h) ==
    IF table[key] # NoHandler THEN table ELSE [table EXCEPT ![key] = h]

\* the table after `if handler == nil { delete } else { table[key] = handler }`
Register(table, key, h) == [table EXCEPT ![key] = h]

On(o, once, channel, eventName, f) ==
    LET h == IF f = HNil THEN NoHandler ELSE Handler(regs + 1, f[1], f[2])
        key == handlerName(channel, eventName)
        err == checkHandler(channel, eventName, h)
    IN  /\ panicked = ""
        /\ UNCHANGED <<emitVars, wire>>
        /\ o \in Created \cup {Server}
        /\ IF err # ""
           THEN /\ regErr' = err
                /\ UNCHANGED <<tableVars, regs>>
           ELSE /\ h # NoHandler => regs < MaxRegs
                /\ regs' = IF h = NoHandler THEN regs ELSE regs + 1
                /\ IF once
                   THEN /\ handlersOnce' = [handlersOnce EXCEPT ![o] = Register(@, key, h)]
                        /\ UNCHANGED handlers
                   ELSE /\ handlers' = [handlers EXCEPT ![o] = Register(@, key, h)]
                        /\ UNCHANGED handlersOnce
                /\ UNCHANGED regErr
        /\ UNCHANGED <<srvVars, clientVars, threadVars, respCh,
                       acceptErr, invoked, fired, panicked, nread>>

(***************************************************************************)
(* The messages the remote end sends.                                      *)
(***************************************************************************)
InboundRequestIds == {0, 1}
InboundArguments == {<<StrV("hi")>>, <<>>}
InboundEvents ==
    {Message(ch, <<StrV(ev)>> \o args, i, NilVal, NilVal, FALSE, "nil") :
        ch \in ChannelNames, ev \in EventNames, args \in InboundArguments,
        i \in InboundRequestIds}
InboundPayloads ==
    {<<StrV("ok"), NilVal, FALSE>>,
     <<NilVal, StrV("boom"), FALSE>>,
     <<NilVal, Obj(<<StrV("js boom")>>), TRUE>>,
     <<NilVal, NilVal, FALSE>>}
InboundResponses ==
    {Message("", <<>>, i, p[1], p[2], p[3], "nil") :
        i \in ReqIds \cup {0}, p \in InboundPayloads}
InboundIgnored ==
    {Message("", <<StrV("echo"), StrV("hi")>>, 1, NilVal, NilVal, FALSE, "false")}
InboundMsgs == InboundEvents \cup InboundResponses \cup InboundIgnored

(***************************************************************************)
(* Client.readMessages and Client.handleMessage                            *)
(***************************************************************************)
\* the prologue: conn and ctx read under dataMu
RlStart(c) ==
    /\ panicked = ""
    /\ UNCHANGED <<emitVars, wire>>
    /\ rl[c].pc = "start"
    /\ dataMu[c] = "free"
    /\ rl' = [rl EXCEPT ![c].pc = "read", ![c].conn = conn[c]]
    /\ UNCHANGED <<srvVars, tableVars, clientVars, caller, closing, sclose,
                   accepting, respCh, logVars>>

\* conn.ReadMessage fails
RlReadError(c) ==
    /\ panicked = ""
    /\ UNCHANGED <<emitVars, wire>>
    /\ rl[c].pc = "read"
    /\ rl[c].conn # Nil
    /\ rl' = [rl EXCEPT ![c].pc = "errC", ![c].err = "read message: EOF"]
    /\ UNCHANGED <<srvVars, tableVars, clientVars, caller, closing, sclose,
                   accepting, respCh, logVars>>

\* conn.ReadMessage on the nil interface the prologue found
RlReadNil(c) ==
    /\ panicked = ""
    /\ UNCHANGED <<emitVars, wire>>
    /\ rl[c].pc = "read"
    /\ rl[c].conn = Nil
    /\ panicked' = "invalid memory address or nil pointer dereference"
    /\ UNCHANGED <<srvVars, tableVars, clientVars, threadVars, respCh,
                   acceptErr, regs, regErr, invoked, fired, nread>>

\* the message is an event that asks for a response
IsRequest(m) == EventName(m) # "" /\ m.i # 0

\* conn.ReadMessage returns a message; then `select { case <-ctx.Done(): return }`
RlRead(c, m) ==
    /\ panicked = ""
    /\ UNCHANGED emitVars
    /\ wire' = IF IsRequest(m) THEN [wire EXCEPT ![c] = Append(@, <<"request", m.i>>)]
               ELSE wire
    /\ rl[c].pc = "read"
    /\ rl[c].conn # Nil
    /\ nread < MaxReads
    /\ transport[c].closes = 0
    /\ nread' = nread + 1
    /\ rl' = [rl EXCEPT ![c] =
            IF ctxCause[c] # NoErr
            THEN [@ EXCEPT !.pc = "exit"]
            ELSE [@ EXCEPT !.pc = "emitmsg", !.msg = m]]
    /\ UNCHANGED <<srvVars, tableVars, clientVars, caller, closing, sclose,
                   accepting, respCh, acceptErr, regs, regErr, invoked, fired, panicked>>

\* a loop that dispatches whatever the flag says
NeverIgnored(m) == FALSE

\* `msg.IgnoreIfFalse != nil && *msg.IgnoreIfFalse == false`
Ignored(m) == m.ign = "false"

\* c.emitMessage(msg), the IgnoreIfFalse test and the top of handleMessage
RlEmitMessage(c) ==
    /\ panicked = ""
    /\ UNCHANGED <<emitVars, wire>>
    /\ rl[c].pc = "emitmsg"
    /\ emitReserved(c, c, <<EventMessage>>, MessageHandler)
    /\ LET m == rl[c].msg
       IN  rl' = [rl EXCEPT ![c].pc =
                IF Ignored(m) THEN "handled"
                ELSE IF EventName(m) # "" THEN "lookupC"
                ELSE IF m.i = 0 THEN "handled"
                ELSE "resp"]
    /\ UNCHANGED <<srvVars, clientVars, caller, closing, sclose, accepting, respCh,
                   acceptErr, regs, regErr, invoked, panicked, nread>>

\* a dispatch that leaves the once entry in its table
KeepOnce(table, key) == table

\* `delete(once, key)`
TakeOnce(table, key) == [table EXCEPT ![key] = NoHandler]

\* `h, ok := once[key]; if ok { ... } else { h, ok = persistent[key] }`
LookupHandler(o, key) ==
    IF handlersOnce[o][key] # NoHandler
    THEN [h |-> handlersOnce[o][key], once |-> TRUE]
    ELSE [h |-> handlers[o][key], once |-> FALSE]

\* a dispatch that consults the server's tables whatever the client holds
AlwaysServerHandler(h) == TRUE

\* `if handler == nil`: the server's tables are consulted
NeedServerHandler(h) == h = NoHandler

MsgKey(m) == handlerName(m.c, EventName(m))

\* a handleMessage that builds the text for a named channel and keeps it
NoListenerOnChannel(m) ==
    "no event listener for '" \o EventName(m) \o "' on channel '" \o m.c \o "'"

\* the error of the missing-handler branch
NoListener(m) ==
    IF m.c = MainChannel
    THEN "no event listener for '" \o EventName(m) \o "'"
    ELSE "no event listener for '" \o EventName(m) \o "' on channel '" \o m.c \o "'"

\* &Message{RequestID: requestID, ResponseError: err.Error()}
RejectMessage(i, err) == Message("", <<>>, i, NilVal, StrV(err), FALSE, "nil")

\* a sendResolve that leaves the request id out of the response
ResolveWithoutId(i, data) == Message("", <<>>, 0, data, NilVal, FALSE, "nil")

\* &Message{RequestID: requestID, ResponseData: data}
ResolveMessage(i, data) == Message("", <<>>, i, data, NilVal, FALSE, "nil")

\* the section under the client's handlersMu
RlLookupC(c) ==
    /\ panicked = ""
    /\ UNCHANGED <<emitVars, wire>>
    /\ rl[c].pc = "lookupC"
    /\ LET key == MsgKey(rl[c].msg)
           r == LookupHandler(c, key)
       IN  /\ handlersOnce' = IF r.once
                              THEN [handlersOnce EXCEPT ![c] = TakeOnce(@, key)]
                              ELSE handlersOnce
           /\ rl' = [rl EXCEPT
                ![c].h = r.h,
                ![c].src = IF r.h = NoHandler THEN "none"
                           ELSE IF r.once THEN "client once" ELSE "client on",
                ![c].cHad = handlersOnce[c][key] # NoHandler
                            \/ handlers[c][key] # NoHandler,
                ![c].pc = IF NeedServerHandler(r.h) THEN "lookupS" ELSE "call"]
    /\ UNCHANGED <<srvVars, handlers, clientVars, caller, closing, sclose, accepting,
                   respCh, logVars>>

\* the section under the server's handlersMu, and the missing-handler branch
RlLookupS(c) ==
    /\ panicked = ""
    /\ UNCHANGED <<emitVars, wire>>
    /\ rl[c].pc = "lookupS"
    /\ LET m == rl[c].msg
           key == MsgKey(m)
           r == LookupHandler(Server, key)
       IN  /\ handlersOnce' = IF r.once
                              THEN [handlersOnce EXCEPT ![Server] = TakeOnce(@, key)]
                              ELSE handlersOnce
           /\ rl' = [rl EXCEPT
                ![c].h = r.h,
                ![c].src = IF r.h = NoHandler THEN "none"
                           ELSE IF r.once THEN "server once" ELSE "server on",
                ![c].reply = IF r.h = NoHandler /\ m.i # 0
                             THEN RejectMessage(m.i, NoListener(m)) ELSE @,
                ![c].pc = IF r.h # NoHandler THEN "call"
                          ELSE IF m.i # 0 THEN "reply"
                          ELSE "handled"]
    /\ UNCHANGED <<srvVars, handlers, clientVars, caller, closing, sclose, accepting,
                   respCh, logVars>>

\* callHandler(handlerCtx, handler, msg.HandlerArguments()) and the choice of
\* the response
RlCall(c, fails) ==
    /\ panicked = ""
    /\ UNCHANGED <<emitVars, wire>>
    /\ rl[c].pc = "call"
    /\ LET m == rl[c].msg
           r == callHandler(rl[c].h, HandlerArguments(m), fails)
       IN  /\ invoked' = IF r.called
                         THEN [invoked EXCEPT ![rl[c].h.id] = @ + 1]
                         ELSE invoked
           /\ panicked' = r.panic
           /\ rl' = [rl EXCEPT
                ![c].result = r,
                ![c].calls = IF r.called THEN @ + 1 ELSE @,
                ![c].reply = IF m.i = 0 \/ r.panic # "" THEN @
                             ELSE IF r.err # NoErr THEN RejectMessage(m.i, r.err)
                             ELSE ResolveMessage(m.i, r.res),
                ![c].pc = IF r.panic # "" THEN "panic"
                          ELSE IF m.i = 0 THEN "handled" ELSE "reply"]
    /\ UNCHANGED <<srvVars, tableVars, clientVars, caller, closing, sclose, accepting,
                   respCh, acceptErr, regs, regErr, fired, nread>>

\* sendReject / sendResolve: conn read under dataMu; nil means closed and the
\* response is dropped
RlReply(c) ==
    /\ panicked = ""
    /\ UNCHANGED <<emitVars, wire>>
    /\ rl[c].pc = "reply"
    /\ dataMu[c] = "free"
    /\ rl' = [rl EXCEPT ![c].seen = conn[c],
                        ![c].pc = IF conn[c] = Nil THEN "handled" ELSE "write"]
    /\ UNCHANGED <<srvVars, tableVars, clientVars, caller, closing, sclose,
                   accepting, respCh, logVars>>

\* conn.WriteMessage(ctx, response)
RlWrite(c, ok) ==
    /\ panicked = ""
    /\ UNCHANGED emitVars
    /\ wire' = [wire EXCEPT ![c] = Append(@, <<"response", rl[c].reply.i>>)]
    /\ rl[c].pc = "write"
    /\ ok => transport[c].closes = 0
    /\ rl' = [rl EXCEPT
            ![c].wrote = @ + 1,
            ![c].err = IF ok THEN @ ELSE "handle message: write failed",
            ![c].pc = IF ok THEN "handled" ELSE "errC"]
    /\ UNCHANGED <<srvVars, tableVars, clientVars, caller, closing, sclose,
                   accepting, respCh, logVars>>

\* a lookup that takes the channel of any pending request
AnyPendingCh(i) ==
    IF \A j \in ReqIds : requestResponseCh[j] = 0 THEN 0
    ELSE requestResponseCh[CHOOSE j \in ReqIds : requestResponseCh[j] # 0]

\* `respCh, ok := c.server.requestResponseCh[*msg.RequestID]`: 0 when absent
PendingCh(i) == IF i \in ReqIds THEN requestResponseCh[i] ELSE 0

\* a handleMessage that leaves the answered request in the map
KeepPending(i) == requestResponseCh

\* delete(c.server.requestResponseCh, *msg.RequestID)
DeletePending(i) == [requestResponseCh EXCEPT ![i] = 0]

\* the section under requestMu: the pending request is looked up and deleted
RlResp(c) ==
    /\ panicked = ""
    /\ UNCHANGED <<emitVars, wire>>
    /\ rl[c].pc = "resp"
    /\ requestMu = "free"
    /\ LET i == rl[c].msg.i
           found == PendingCh(i) # 0
       IN  /\ requestResponseCh' = IF found THEN DeletePending(i)
                                   ELSE requestResponseCh
           /\ rl' = [rl EXCEPT
                ![c].rch = PendingCh(i),
                ![c].pc = IF found THEN "send" ELSE "handled"]
    /\ UNCHANGED <<clients, requestID, requestMu, nextClient, tableVars, clientVars,
                   caller, closing, sclose, accepting, respCh, logVars>>

(***************************************************************************)
(* Response channels: `make(chan messageResponse, 1)`.  What is sent       *)
(* carries, beside the messageResponse, where it came from.                *)
(***************************************************************************)
ChanCap == 1

Delivery(resp, kind, m, c) ==
    [resp |-> resp, from |-> [kind |-> kind, m |-> m, c |-> c]]

\* respCh <- v: a send on a closed channel panics, a send on a full one blocks
CanSend(r) == respCh[r].closed \/ Len(respCh[r].buf) < ChanCap

ChanSend(r, v) ==
    IF respCh[r].closed
    THEN /\ panicked' = "send on closed channel"
         /\ UNCHANGED respCh
    ELSE /\ respCh' = [respCh EXCEPT ![r].buf = Append(@, v), ![r].sent = @ + 1]
         /\ UNCHANGED panicked

\* close(respCh): closing a closed channel panics
ChanClose(r) ==
    IF respCh[r].closed
    THEN /\ panicked' = "close of closed channel"
         /\ UNCHANGED respCh
    ELSE /\ respCh' = [respCh EXCEPT ![r].closed = TRUE]
         /\ UNCHANGED panicked

\* res, err := msg.Response(); respCh <- messageResponse{res, err}
RlSend(c) ==
    /\ panicked = ""
    /\ UNCHANGED <<emitVars, wire>>
    /\ rl[c].pc = "send"
    /\ CanSend(rl[c].rch)
    /\ ChanSend(rl[c].rch, Delivery(Response(rl[c].msg), "response", rl[c].msg, c))
    /\ rl' = [rl EXCEPT ![c].pc = "closech"]
    /\ UNCHANGED <<srvVars, tableVars, clientVars, caller, closing, sclose,
                   accepting, acceptErr, regs, regErr, invoked, fired, nread>>

\* close(respCh)
RlCloseCh(c) ==
    /\ panicked = ""
    /\ UNCHANGED <<emitVars, wire>>
    /\ rl[c].pc = "closech"
    /\ ChanClose(rl[c].rch)
    /\ rl' = [rl EXCEPT ![c].pc = "handled"]
    /\ UNCHANGED <<srvVars, tableVars, clientVars, caller, closing, sclose,
                   accepting, acceptErr, regs, regErr, invoked, fired, nread>>

\* handleMessage returned nil: the loop goes round
\* a loop that goes on to the next message while the response is unwritten
BeforeReturn(c) == rl[c].pc \in {"reply", "write", "handled"}

\* c.handleMessage(ctx, msg) has returned nil, or the message was ignored
HandleReturned(c) == rl[c].pc = "handled"

RlNext(c) ==
    /\ panicked = ""
    /\ UNCHANGED <<emitVars, wire>>
    /\ HandleReturned(c)
    /\ rl' = [rl EXCEPT ![c] =
            [IdleReadLoop EXCEPT !.pc = "read", !.conn = rl[c].conn]]
    /\ UNCHANGED <<srvVars, tableVars, clientVars, caller, closing, sclose,
                   accepting, respCh, logVars>>

\* c.emitError(err)
RlErrC(c) ==
    /\ panicked = ""
    /\ UNCHANGED <<emitVars, wire>>
    /\ rl[c].pc = "errC"
    /\ emitReserved(c, c, <<EventError>>, ErrorHandler)
    /\ rl' = [rl EXCEPT ![c].pc = "errS"]
    /\ UNCHANGED <<srvVars, clientVars, caller, closing, sclose, accepting, respCh,
                   acceptErr, regs, regErr, invoked, panicked, nread>>

\* c.server.emitError(c, err), then c.Close(StatusInternalError, err.Error()) begins
RlErrS(c) ==
    /\ panicked = ""
    /\ UNCHANGED <<emitVars, wire>>
    /\ rl[c].pc = "errS"
    /\ emitReserved(Server, c, <<EventError>>, ErrorHandler)
    /\ rl' = [rl EXCEPT ![c].pc = "close"]
    /\ closing' = [closing EXCEPT ![<<"rl", c>>] =
            [pc |-> "del", c |-> c, status |-> StatusInternalError, err |-> NoErr]]
    /\ UNCHANGED <<srvVars, clientVars, caller, sclose, accepting, respCh,
                   acceptErr, regs, regErr, invoked, panicked, nread>>

(***************************************************************************)
(* Client.Close and Client.closeWithoutLock, run by the goroutine t: a     *)
(* read loop, a goroutine of the application, or Server.Close.             *)
(***************************************************************************)
\* a closeWithoutLock that cancels the context without its own cause
CanceledCause(status) == "context canceled"

\* fmt.Errorf("client closed (status: %v)", status)
ClosedCause(status) == "client closed (status: " \o status \o ")"

\* a select that reports why it returned without wrapping the cause
AwaitingErrorBare(cause) == "awaiting response"

\* fmt.Errorf("awaiting response: %w", cause)
AwaitingError(cause) == "awaiting response: " \o cause

\* Client.Close called by the application
UserClose(k, c) ==
    /\ panicked = ""
    /\ UNCHANGED <<emitVars, wire>>
    /\ closing[<<"user", k>>].pc = "idle"
    /\ k > 1 => closing[<<"user", k - 1>>].pc # "idle"
    /\ c \in Created
    /\ closing' = [closing EXCEPT ![<<"user", k>>] =
            [pc |-> "del", c |-> c, status |-> StatusNormalClosure, err |-> NoErr]]
    /\ UNCHANGED <<srvVars, tableVars, clientVars, rl, caller, sclose, accepting,
                   respCh, logVars>>

\* Close: delete(c.server.clients, c) under clientsMu (a no-op on a nil map)
CloseDelete(t) ==
    /\ panicked = ""
    /\ UNCHANGED <<emitVars, wire>>
    /\ ~ClientsMuHeld
    /\ closing[t].pc = "del"
    /\ clients' = [clients EXCEPT !.set = @ \ {closing[t].c}]
    /\ closing' = [closing EXCEPT ![t].pc = "cancel"]
    /\ UNCHANGED <<requestID, requestResponseCh, requestMu, nextClient, tableVars,
                   clientVars, rl, caller, sclose, accepting, respCh, logVars>>

\* closeWithoutLock: c.ctxCancel(cause); only the first cause is kept
CloseCancel(t) ==
    /\ panicked = ""
    /\ UNCHANGED <<emitVars, wire>>
    /\ closing[t].pc = "cancel"
    /\ ctxCause' = [ctxCause EXCEPT ![closing[t].c] =
            IF @ = NoErr THEN ClosedCause(closing[t].status) ELSE @]
    /\ closing' = [closing EXCEPT ![t].pc = "lock"]
    /\ UNCHANGED <<srvVars, tableVars, conn, dataMu, transport, rl, caller, sclose,
                   accepting, respCh, logVars>>

\* what closeWithoutLock leaves in dataMu when it finds conn == nil
DataMuAfterClosed == "locked"

\* a Server.Close that keeps the last error in place of the first
LastErr(clientErr, err) == IF err # NoErr THEN err ELSE clientErr

\* `if err := ...; err != nil && clientErr == nil { clientErr = err }`
FirstErr(clientErr, err) == IF err # NoErr /\ clientErr = NoErr THEN err ELSE clientErr

\* a read loop that goes back to ReadMessage after closing its client
ReadAgain == "read"

\* `c.Close(StatusInternalError, err.Error()); return`
ExitLoop == "exit"

\* the goroutine t gets err back from closeWithoutLock
CloseReturn(t, err) ==
    /\ closing' = [closing EXCEPT
            ![t] = IF t[1] = "server" THEN IdleClose
                   ELSE [@ EXCEPT !.pc = "ret", !.err = err]]
    /\ rl' = IF t[1] = "rl" THEN [rl EXCEPT ![t[2]].pc = ExitLoop] ELSE rl
    /\ sclose' = IF t[1] = "server"
                 THEN [sclose EXCEPT ![t[2]] =
                        [@ EXCEPT !.pc = "loop", !.todo = @ \ {closing[t].c},
                            !.clientErr = FirstErr(@, err),
                            !.errs = Append(@, [c |-> closing[t].c, err |-> err])]]
                 ELSE sclose

\* a closeWithoutLock that goes on whatever it finds in conn
NeverClosed(c) == FALSE

\* `if c.conn == nil`
AlreadyClosed(c) == conn[c] = Nil

\* closeWithoutLock: dataMu.Lock(); conn == nil returns nil, else conn = nil
CloseLock(t) ==
    /\ panicked = ""
    /\ UNCHANGED <<emitVars, wire>>
    /\ closing[t].pc = "lock"
    /\ dataMu[closing[t].c] = "free"
    /\ LET c == closing[t].c
       IN  IF AlreadyClosed(c)
           THEN /\ dataMu' = [dataMu EXCEPT ![c] = DataMuAfterClosed]
                /\ CloseReturn(t, NoErr)
                /\ UNCHANGED conn
           ELSE /\ conn' = [conn EXCEPT ![c] = Nil]
                /\ closing' = [closing EXCEPT ![t].pc = "emitC"]
                /\ UNCHANGED <<dataMu, rl, sclose>>
    /\ UNCHANGED <<srvVars, tableVars, ctxCause, transport, caller, accepting,
                   respCh, logVars>>

\* c.emitClose(status, reason)
CloseEmitC(t) ==
    /\ panicked = ""
    /\ UNCHANGED <<emitVars, wire>>
    /\ closing[t].pc = "emitC"
    /\ emitReserved(closing[t].c, closing[t].c, <<EventClose, EventDisconnect>>,
                    CloseHandler)
    /\ closing' = [closing EXCEPT ![t].pc = "emitS"]
    /\ UNCHANGED <<srvVars, clientVars, rl, caller, sclose, accepting, respCh,
                   acceptErr, regs, regErr, invoked, panicked, nread>>

\* c.server.emitClose(c, status, reason)
CloseEmitS(t) ==
    /\ panicked = ""
    /\ UNCHANGED <<emitVars, wire>>
    /\ closing[t].pc = "emitS"
    /\ emitReserved(Server, closing[t].c, <<EventClose, EventDisconnect>>,
                    CloseHandler)
    /\ closing' = [closing EXCEPT ![t].pc = "conn"]
    /\ UNCHANGED <<srvVars, clientVars, rl, caller, sclose, accepting, respCh,
                   acceptErr, regs, regErr, invoked, panicked, nread>>

\* return conn.Close(status, reason)
CloseConn(t, err) ==
    /\ panicked = ""
    /\ UNCHANGED <<emitVars, wire>>
    /\ closing[t].pc = "conn"
    /\ transport' = [transport EXCEPT ![closing[t].c] =
            [closes |-> @.closes + 1, status |-> closing[t].status]]
    /\ CloseReturn(t, err)
    /\ UNCHANGED <<srvVars, tableVars, conn, ctxCause, dataMu, caller, accepting,
                   respCh, logVars>>

(***************************************************************************)
(* Server.Close                                                            *)
(***************************************************************************)
\* a Server.Close that leaves the live set in place
KeptClients(live) == live

\* `s.clients = nil`
NilClients(live) == [isNil |-> TRUE, set |-> {}]

\* the section under clientsMu: `clients := s.clients; s.clients = nil`
ServerCloseStart(k) ==
    /\ panicked = ""
    /\ UNCHANGED <<emitVars, wire>>
    /\ ~ClientsMuHeld
    /\ sclose[k].pc = "idle"
    /\ k > 1 => sclose[k - 1].pc # "idle"
    /\ sclose' = [sclose EXCEPT ![k] =
            [pc |-> "loop", clients |-> clients.set, todo |-> clients.set,
             clientErr |-> NoErr, errs |-> <<>>]]
    /\ clients' = NilClients(clients)
    /\ UNCHANGED <<requestID, requestResponseCh, requestMu, nextClient, tableVars,
                   clientVars, rl, caller, closing, accepting, respCh, logVars>>

\* `for client := range clients { client.closeWithoutLock(StatusGoingAway, ...) }`
ServerCloseClient(k, c) ==
    /\ panicked = ""
    /\ UNCHANGED <<emitVars, wire>>
    /\ sclose[k].pc = "loop"
    /\ c \in sclose[k].todo
    /\ sclose' = [sclose EXCEPT ![k].pc = "closing"]
    /\ closing' = [closing EXCEPT ![<<"server", k>>] =
            [pc |-> "cancel", c |-> c, status |-> StatusGoingAway, err |-> NoErr]]
    /\ UNCHANGED <<srvVars, tableVars, clientVars, rl, caller, accepting, respCh,
                   logVars>>

AbortResponse == messageResponse(NilVal, "request aborted")

Pending == {i \in ReqIds : requestResponseCh[i] # 0}

\* the channels of the pending requests after `respCh <- abort; close(respCh)`
AbortAll(chans) ==
    [r \in Callers |->
        IF \E i \in Pending : requestResponseCh[i] = r
        THEN [buf |-> Append(chans[r].buf,
                             Delivery(AbortResponse, "abort", NoMessage, 0)),
              closed |-> TRUE, sent |-> chans[r].sent + 1]
        ELSE chans[r]]

\* the section under requestMu: every pending request is aborted, the map cleared
ServerCloseAbort(k) ==
    /\ panicked = ""
    /\ UNCHANGED <<emitVars, wire>>
    /\ sclose[k].pc = "loop"
    /\ sclose[k].todo = {}
    /\ requestMu = "free"
    /\ LET chans == {requestResponseCh[i] : i \in Pending}
       IN  IF \E r \in chans : respCh[r].closed
           THEN /\ panicked' = "send on closed channel"
                /\ UNCHANGED <<respCh, requestResponseCh, requestMu, sclose>>
           ELSE IF \E r \in chans : Len(respCh[r].buf) >= ChanCap
           THEN /\ requestMu' = "locked"
                /\ sclose' = [sclose EXCEPT ![k].pc = "blocked"]
                /\ UNCHANGED <<respCh, requestResponseCh, panicked>>
           ELSE /\ respCh' = AbortAll(respCh)
                /\ requestResponseCh' = [i \in ReqIds |-> 0]
                /\ sclose' = [sclose EXCEPT ![k].pc = "done"]
                /\ UNCHANGED <<requestMu, panicked>>
    /\ UNCHANGED <<clients, requestID, nextClient, tableVars, clientVars, rl, caller,
                   closing, accepting, acceptErr, regs, regErr, invoked, fired, nread>>

(***************************************************************************)
(* ClientChannel.Request and Client.sendRequest                            *)
(***************************************************************************)
RequestChannels == {<<MainChannel, "echo">>, <<MainChannel, EventClose>>}
CallerCauses == {"context canceled", "context deadline exceeded"}

Done(r, data, err, via, from) ==
    [caller[r] EXCEPT !.pc = "done",
        !.out = [data |-> data, err |-> err, via |-> via, from |-> from]]

ReservedError(eventName) ==
    "cannot emit reserved event '" \o eventName \o "' on main channel"

\* an Emit that sends whatever the event name is
NothingRejected(channel, eventName) == FALSE

\* `c.name == "" && IsReservedEvent(eventName)`
RejectedAtCall(channel, eventName) ==
    channel = MainChannel /\ IsReservedEvent(eventName)

\* Request is called: checkEventName and the reserved-event test
Request(r, c, ce) ==
    /\ panicked = ""
    /\ UNCHANGED <<emitVars, wire>>
    /\ caller[r].pc = "idle"
    /\ r > 1 => caller[r - 1].pc # "idle"
    /\ c \in Created
    /\ caller' = [caller EXCEPT ![r] =
            IF RejectedAtCall(ce[1], ce[2])
            THEN [@ EXCEPT !.pc = "done", !.c = c, !.ch = ce[1], !.ev = ce[2],
                    !.out = [data |-> NilVal, err |-> ReservedError(ce[2]),
                             via |-> "reserved", from |-> NoFrom]]
            ELSE [@ EXCEPT !.pc = "lock", !.c = c, !.ch = ce[1], !.ev = ce[2]]]
    /\ UNCHANGED <<srvVars, tableVars, clientVars, rl, closing, sclose, accepting,
                   respCh, logVars>>

\* the caller's context is cancelled or its deadline passes
CancelCtx(r, cause) ==
    /\ panicked = ""
    /\ UNCHANGED <<emitVars, wire>>
    /\ caller[r].pc \in {"lock", "alloc", "write", "wait"}
    /\ caller[r].ctx = NoErr
    /\ caller' = [caller EXCEPT ![r].ctx = cause]
    /\ UNCHANGED <<srvVars, tableVars, clientVars, rl, closing, sclose, accepting,
                   respCh, logVars>>

\* sendRequest: conn and ctx read under dataMu
CallerLock(r) ==
    /\ panicked = ""
    /\ UNCHANGED <<emitVars, wire>>
    /\ caller[r].pc = "lock"
    /\ dataMu[caller[r].c] = "free"
    /\ caller' = [caller EXCEPT ![r] =
            IF conn[caller[r].c] = Nil
            THEN Done(r, NilVal, "connection is closed", "closed", NoFrom)
            ELSE [@ EXCEPT !.pc = "alloc", !.conn = conn[caller[r].c]]]
    /\ UNCHANGED <<srvVars, tableVars, clientVars, rl, closing, sclose, accepting,
                   respCh, logVars>>

\* a counter that is read without being incremented once it has left 0
ReusedRequestID == IF requestID = 0 THEN 1 ELSE requestID

\* `c.server.requestID++; requestID := c.server.requestID`
NextRequestID == requestID + 1

\* the section under requestMu: the next id is taken and the channel stored
CallerAlloc(r) ==
    /\ panicked = ""
    /\ UNCHANGED <<emitVars, wire>>
    /\ caller[r].pc = "alloc"
    /\ requestMu = "free"
    /\ requestID < MaxRequests
    /\ LET i == NextRequestID
       IN  /\ requestID' = i
           /\ IF requestResponseCh[i] # 0
              THEN /\ caller' = [caller EXCEPT ![r] =
                        Done(r, NilVal, "request ID already in use", "inuse", NoFrom)]
                   /\ UNCHANGED requestResponseCh
              ELSE /\ requestResponseCh' = [requestResponseCh EXCEPT ![i] = r]
                   /\ caller' = [caller EXCEPT ![r].pc = "write", ![r].id = i]
    /\ UNCHANGED <<clients, requestMu, nextClient, tableVars, clientVars, rl, closing,
                   sclose, accepting, respCh, logVars>>

\* conn.WriteMessage(ctx, request)
CallerWrite(r, ok) ==
    /\ panicked = ""
    /\ UNCHANGED <<emitVars, wire>>
    /\ caller[r].pc = "write"
    /\ ok => transport[caller[r].c].closes = 0 /\ caller[r].ctx = NoErr
    /\ caller' = [caller EXCEPT ![r] =
            IF ok THEN [@ EXCEPT !.pc = "wait"]
            ELSE Done(r, NilVal, "sending request: write failed", "write", NoFrom)]
    /\ UNCHANGED <<srvVars, tableVars, clientVars, rl, closing, sclose, accepting,
                   respCh, logVars>>

\* select: `case resp, ok := <-respCh`
CallerReceive(r) ==
    /\ panicked = ""
    /\ UNCHANGED <<emitVars, wire>>
    /\ caller[r].pc = "wait"
    /\ \/ /\ Len(respCh[r].buf) > 0
          /\ respCh' = [respCh EXCEPT ![r].buf = Tail(@)]
          /\ LET v == Head(respCh[r].buf)
             IN  caller' = [caller EXCEPT ![r] =
                    Done(r, v.resp.Data, v.resp.Error, "respCh", v.from)]
       \/ /\ Len(respCh[r].buf) = 0
          /\ respCh[r].closed
          /\ caller' = [caller EXCEPT ![r] =
                Done(r, NilVal, "response channel closed unexpectedly", "respCh",
                     NoFrom)]
          /\ UNCHANGED respCh
    /\ UNCHANGED <<srvVars, tableVars, clientVars, rl, closing, sclose, accepting,
                   logVars>>

\* select: `case <-ctxClient.Done()`
CallerClientDone(r) ==
    /\ panicked = ""
    /\ UNCHANGED <<emitVars, wire>>
    /\ caller[r].pc = "wait"
    /\ ctxCause[caller[r].c] # NoErr
    /\ caller' = [caller EXCEPT ![r] =
            Done(r, NilVal, AwaitingError(ctxCause[caller[r].c]), "ctxClient", NoFrom)]
    /\ UNCHANGED <<srvVars, tableVars, clientVars, rl, closing, sclose, accepting,
                   respCh, logVars>>

\* select: `case <-ctx.Done()`
CallerCtxDone(r) ==
    /\ panicked = ""
    /\ UNCHANGED <<emitVars, wire>>
    /\ caller[r].pc = "wait"
    /\ caller[r].ctx # NoErr
    /\ caller' = [caller EXCEPT ![r] =
            Done(r, NilVal, AwaitingError(caller[r].ctx), "ctx", NoFrom)]
    /\ UNCHANGED <<srvVars, tableVars, clientVars, rl, closing, sclose, accepting,
                   respCh, logVars>>

(***************************************************************************)
(* The program.                                                            *)
(***************************************************************************)
(***************************************************************************)
(* ClientChannel.Emit and Client.sendEvent                                 *)
(***************************************************************************)
EmitChannels == {<<MainChannel, "echo">>, <<MainChannel, EventClose>>,
                 <<"io", EventClose>>}

\* Emit is called: checkEventName and the reserved-event test
Emit(e, c, ce) ==
    /\ panicked = ""
    /\ UNCHANGED wire
    /\ emitter[e].pc = "idle"
    /\ e > 1 => emitter[e - 1].pc # "idle"
    /\ c \in Created
    /\ emitter' = [emitter EXCEPT ![e] =
            IF RejectedAtCall(ce[1], ce[2])
            THEN [@ EXCEPT !.pc = "done", !.c = c, !.ch = ce[1], !.ev = ce[2],
                           !.err = ReservedError(ce[2])]
            ELSE [@ EXCEPT !.pc = "lock", !.c = c, !.ch = ce[1], !.ev = ce[2]]]
    /\ UNCHANGED <<srvVars, tableVars, clientVars, threadVars, respCh, logVars, bcast>>

\* sendEvent: conn read under dataMu, then conn.WriteMessage is called
EmitLock(e) ==
    /\ panicked = ""
    /\ UNCHANGED wire
    /\ emitter[e].pc = "lock"
    /\ dataMu[emitter[e].c] = "free"
    /\ emitter' = [emitter EXCEPT ![e] =
            IF conn[emitter[e].c] = Nil
            THEN [@ EXCEPT !.pc = "done", !.err = "connection is closed"]
            ELSE [@ EXCEPT !.pc = "write", !.calls = @ + 1]]
    /\ UNCHANGED <<srvVars, tableVars, clientVars, threadVars, respCh, logVars, bcast>>

\* conn.WriteMessage returns
EmitWrite(e, ok) ==
    /\ panicked = ""
    /\ UNCHANGED wire
    /\ emitter[e].pc = "write"
    /\ ok => transport[emitter[e].c].closes = 0
    /\ emitter' = [emitter EXCEPT ![e].pc = "done",
                                  ![e].err = IF ok THEN NoErr ELSE "write failed"]
    /\ UNCHANGED <<srvVars, tableVars, clientVars, threadVars, respCh, logVars, bcast>>

(***************************************************************************)
(* ServerChannel.Emit                                                      *)
(***************************************************************************)
ClientError(c, err) == [c |-> c, err |-> err]

\* a broadcast that stops at the first failed write
StopAtFailure(todo, c, ok) == IF ok THEN todo \ {c} ELSE {}

\* the range goes on to the remaining clients whatever sendEvent returned
RestOfRange(todo, c, ok) == todo \ {c}

\* checkEventName, the reserved-event test, clientsMu.Lock and the start of
\* `for client := range c.server.clients`
Broadcast(ce) ==
    /\ panicked = ""
    /\ UNCHANGED wire
    /\ bcast.pc = "idle"
    /\ bcast' =
            IF RejectedAtCall(ce[1], ce[2])
            THEN [bcast EXCEPT !.pc = "done", !.ch = ce[1], !.ev = ce[2],
                               !.errs = <<ClientError(0, ReservedError(ce[2]))>>]
            ELSE [bcast EXCEPT !.pc = "loop", !.ch = ce[1], !.ev = ce[2],
                               !.live = clients.set, !.todo = clients.set]
    /\ UNCHANGED <<srvVars, tableVars, clientVars, threadVars, respCh, logVars, emitter>>

\* client.sendEvent for the next client of the range: conn read under dataMu,
\* then conn.WriteMessage is called
BroadcastLock(c) ==
    /\ panicked = ""
    /\ UNCHANGED wire
    /\ bcast.pc = "loop"
    /\ c \in bcast.todo
    /\ dataMu[c] = "free"
    /\ bcast' =
            IF conn[c] = Nil
            THEN [bcast EXCEPT !.todo = RestOfRange(@, c, FALSE),
                    !.errs = Append(@, ClientError(c, "connection is closed"))]
            ELSE [bcast EXCEPT !.pc = "write", !.cur = c, !.called = @ \cup {c}]
    /\ UNCHANGED <<srvVars, tableVars, clientVars, threadVars, respCh, logVars, emitter>>

\* conn.WriteMessage returns; `if err != nil { errs = append(errs, ...) }`
BroadcastWrite(ok) ==
    /\ panicked = ""
    /\ UNCHANGED wire
    /\ bcast.pc = "write"
    /\ ok => transport[bcast.cur].closes = 0
    /\ bcast' = [bcast EXCEPT
            !.pc = "loop", !.cur = 0,
            !.todo = RestOfRange(@, bcast.cur, ok),
            !.got = IF ok THEN @ \cup {bcast.cur} ELSE @,
            !.errs = IF ok THEN @ ELSE Append(@, ClientError(bcast.cur, "write failed"))]
    /\ UNCHANGED <<srvVars, tableVars, clientVars, threadVars, respCh, logVars, emitter>>

\* the range is over: the deferred clientsMu.Unlock and the return of errs
BroadcastReturn ==
    /\ panicked = ""
    /\ UNCHANGED wire
    /\ bcast.pc = "loop"
    /\ bcast.todo = {}
    /\ bcast' = [bcast EXCEPT !.pc = "done"]
    /\ UNCHANGED <<srvVars, tableVars, clientVars, threadVars, respCh, logVars, emitter>>

(***************************************************************************)
(* A handler whose body calls Request on the client it was called for.     *)
(* callHandler runs in the read loop's goroutine, so the read loop is      *)
(* inside the handler until the Request returns.                           *)
(***************************************************************************)
\* callHandler calls the handler, whose body calls client.Request(ctx, "echo")
RlCallRequest(c, r) ==
    /\ panicked = ""
    /\ UNCHANGED <<emitVars, wire>>
    /\ rl[c].pc = "call"
    /\ callHandler(rl[c].h, HandlerArguments(rl[c].msg), FALSE).called
    /\ caller[r].pc = "idle"
    /\ r > 1 => caller[r - 1].pc # "idle"
    /\ invoked' = [invoked EXCEPT ![rl[c].h.id] = @ + 1]
    /\ rl' = [rl EXCEPT ![c].pc = "incall", ![c].calls = @ + 1]
    /\ caller' = [caller EXCEPT ![r] =
            [@ EXCEPT !.pc = "lock", !.c = c, !.ch = MainChannel, !.ev = "echo",
                      !.by = c]]
    /\ UNCHANGED <<srvVars, tableVars, clientVars, closing, sclose, accepting,
                   respCh, acceptErr, regs, regErr, fired, panicked, nread>>

\* the handler's Request has returned and the handler returns what it got
RlCallReturn(c, r) ==
    /\ panicked = ""
    /\ UNCHANGED <<emitVars, wire>>
    /\ rl[c].pc = "incall"
    /\ caller[r].by = c
    /\ caller[r].pc = "done"
    /\ LET m == rl[c].msg
           res == [called |-> TRUE,
                   res |-> IF Len(rl[c].h.out) = 2 THEN caller[r].out.data ELSE NilVal,
                   err |-> caller[r].out.err,
                   panic |-> "",
                   ins |-> HandlerArguments(m)]
       IN  rl' = [rl EXCEPT
                ![c].result = res,
                ![c].reply = IF m.i = 0 THEN @
                             ELSE IF res.err # NoErr THEN RejectMessage(m.i, res.err)
                             ELSE ResolveMessage(m.i, res.res),
                ![c].pc = IF m.i = 0 THEN "handled" ELSE "reply"]
    /\ caller' = [caller EXCEPT ![r].by = 0]
    /\ UNCHANGED <<srvVars, tableVars, clientVars, closing, sclose, accepting,
                   respCh, logVars>>

\* the application calls msg.Response() on a message it holds, for instance
\* in an observer of "message": the goroutine ends with what was returned
MessageResponse(r, m) ==
    /\ panicked = ""
    /\ UNCHANGED <<emitVars, wire>>
    /\ caller[r].pc = "idle"
    /\ r > 1 => caller[r - 1].pc # "idle"
    /\ caller' = [caller EXCEPT ![r] =
            Done(r, Response(m).Data, Response(m).Error, "Response",
                 [kind |-> "message", m |-> m, c |-> 0])]
    /\ UNCHANGED <<srvVars, tableVars, clientVars, rl, closing, sclose, accepting,
                   respCh, logVars>>

Next ==
    \/ Accept
    \/ \E r \in Callers, m \in InboundMsgs : MessageResponse(r, m)
    \/ \E c \in Clients : AcceptEmitOpen(c)
    \/ \E o \in Owners, once \in BOOLEAN, g \in Registrations :
          On(o, once, g[1], g[2], g[3])
    \/ \E c \in Clients : RlStart(c)
    \/ \E c \in Clients : RlReadError(c)
    \/ \E c \in Clients : RlReadNil(c)
    \/ \E c \in Clients, m \in InboundMsgs : RlRead(c, m)
    \/ \E c \in Clients : RlEmitMessage(c)
    \/ \E c \in Clients : RlLookupC(c)
    \/ \E c \in Clients : RlLookupS(c)
    \/ \E c \in Clients, fails \in BOOLEAN : RlCall(c, fails)
    \/ \E c \in Clients : RlReply(c)
    \/ \E c \in Clients, ok \in BOOLEAN : RlWrite(c, ok)
    \/ \E c \in Clients : RlResp(c)
    \/ \E c \in Clients : RlSend(c)
    \/ \E c \in Clients : RlCloseCh(c)
    \/ \E c \in Clients : RlNext(c)
    \/ \E c \in Clients : RlErrC(c)
    \/ \E c \in Clients : RlErrS(c)
    \/ \E k \in 1..MaxUserCloses, c \in Clients : UserClose(k, c)
    \/ \E t \in CloseThreads : CloseDelete(t)
    \/ \E t \in CloseThreads : CloseCancel(t)
    \/ \E t \in CloseThreads : CloseLock(t)
    \/ \E t \in CloseThreads : CloseEmitC(t)
    \/ \E t \in CloseThreads : CloseEmitS(t)
    \/ \E t \in CloseThreads, err \in {NoErr, "close failed"} : CloseConn(t, err)
    \/ \E k \in 1..MaxServerCloses : ServerCloseStart(k)
    \/ \E k \in 1..MaxServerCloses, c \in Clients : ServerCloseClient(k, c)
    \/ \E k \in 1..MaxServerCloses : ServerCloseAbort(k)
    \/ \E r \in Callers, c \in Clients, ce \in RequestChannels : Request(r, c, ce)
    \/ \E r \in Callers, cause \in CallerCauses : CancelCtx(r, cause)
    \/ \E r \in Callers : CallerLock(r)
    \/ \E r \in Callers : CallerAlloc(r)
    \/ \E r \in Callers, ok \in BOOLEAN : CallerWrite(r, ok)
    \/ \E r \in Callers : CallerReceive(r)
    \/ \E r \in Callers : CallerClientDone(r)
    \/ \E r \in Callers : CallerCtxDone(r)
    \/ \E e \in Emitters, c \in Clients, ce \in EmitChannels : Emit(e, c, ce)
    \/ \E e \in Emitters : EmitLock(e)
    \/ \E e \in Emitters, ok \in BOOLEAN : EmitWrite(e, ok)
    \/ \E ce \in EmitChannels : Broadcast(ce)
    \/ \E c \in Clients : BroadcastLock(c)
    \/ \E ok \in BOOLEAN : BroadcastWrite(ok)
    \/ BroadcastReturn
    \/ \E c \in Clients, r \in Callers : RlCallRequest(c, r)
    \/ \E c \in Clients, r \in Callers : RlCallReturn(c, r)

Spec == Init /\ [][Next]_vars

(***************************************************************************)
(* Scenarios.  The whole program is too large to explore exhaustively, so  *)
(* the properties are checked on parts of it: each scenario takes the      *)
(* actions of the program that the behaviour under study involves and      *)
(* leaves the others out.                                                  *)
(***************************************************************************)
CloseErrors == {NoErr, "close failed", "close timed out"}

\* the first connection is accepted
AcceptFirst == nextClient = 0 /\ Accept

\* the read loop is scheduled once Accept has returned: emitOpen touches the
\* handlers of "open" and "connect" only
RlStartAccepted(c) == accepting[c] = "done" /\ RlStart(c)

\* the application closes a client whose read loop is running
CloseRunning(c) == rl[c].pc # "start" /\ UserClose(1, c)

\* the requests and events the remote end sends for "echo", with one argument
EchoMsgs == {m \in InboundEvents : EventName(m) = "echo" /\ Len(m.a) = 2}

\* the responses the remote end sends
ResponseMsgs == {m \in InboundResponses : m.i # 0}
DataResponses == {m \in ResponseMsgs : m.d # NilVal}

(***************************************************************************)
(* Dispatch on one connection: handlers are registered for "echo" on the   *)
(* main channel of the client and of the server, the remote end sends      *)
(* events and requests on the main channel and on channel "io", and the    *)
(* application closes the client.                                          *)
(***************************************************************************)
NextDispatch ==
    \/ AcceptFirst
    \/ \E c \in Clients : AcceptEmitOpen(c)
    \/ \E o \in Owners, once \in BOOLEAN : On(o, once, MainChannel, "echo", HEcho)
    \/ \E c \in Clients : RlStartAccepted(c)
    \/ \E c \in Clients : RlReadError(c)
    \/ \E c \in Clients, m \in EchoMsgs : RlRead(c, m)
    \/ \E c \in Clients : RlEmitMessage(c)
    \/ \E c \in Clients : RlLookupC(c)
    \/ \E c \in Clients : RlLookupS(c)
    \/ \E c \in Clients, fails \in BOOLEAN : RlCall(c, fails)
    \/ \E c \in Clients : RlReply(c)
    \/ \E c \in Clients, ok \in BOOLEAN : RlWrite(c, ok)
    \/ \E c \in Clients : RlNext(c)
    \/ \E c \in Clients : RlErrC(c)
    \/ \E c \in Clients : RlErrS(c)
    \/ \E c \in Clients : CloseRunning(c)
    \/ \E t \in CloseThreads : CloseDelete(t)
    \/ \E t \in CloseThreads : CloseCancel(t)
    \/ \E t \in CloseThreads : CloseLock(t)
    \/ \E t \in CloseThreads : CloseEmitC(t)
    \/ \E t \in CloseThreads : CloseEmitS(t)
    \/ \E t \in CloseThreads : CloseConn(t, NoErr)

SpecDispatch == Init /\ [][NextDispatch]_vars

(***************************************************************************)
(* Dispatch on several connections at once: handlers of "echo" are         *)
(* registered with Once on the clients and on the server, and the read     *)
(* loops of the clients look them up concurrently; nothing is closed and   *)
(* no write fails.                                                         *)
(***************************************************************************)
EchoRequests == {m \in EchoMsgs : m.c = MainChannel /\ m.i # 0}

NextOnce ==
    \/ Accept
    \/ \E c \in Clients : AcceptEmitOpen(c)
    \/ \E o \in Owners : On(o, TRUE, MainChannel, "echo", HEcho)
    \/ \E c \in Clients : RlStartAccepted(c)
    \/ \E c \in Clients, m \in EchoRequests : RlRead(c, m)
    \/ \E c \in Clients : RlEmitMessage(c)
    \/ \E c \in Clients : RlLookupC(c)
    \/ \E c \in Clients : RlLookupS(c)
    \/ \E c \in Clients, fails \in BOOLEAN : RlCall(c, fails)
    \/ \E c \in Clients : RlReply(c)
    \/ \E c \in Clients : RlWrite(c, TRUE)
    \/ \E c \in Clients : RlNext(c)

SpecOnce == Init /\ [][NextOnce]_vars

(***************************************************************************)
(* Requests on one connection that stays open: several callers have        *)
(* requests outstanding, the remote end answers in any order, with any     *)
(* payload and any id, and callers cancel their contexts.                  *)
(***************************************************************************)
NextRequest ==
    \/ AcceptFirst
    \/ \E c \in Clients : AcceptEmitOpen(c)
    \/ \E c \in Clients : RlStartAccepted(c)
    \/ \E c \in Clients, m \in ResponseMsgs : RlRead(c, m)
    \/ \E c \in Clients : RlEmitMessage(c)
    \/ \E c \in Clients : RlResp(c)
    \/ \E c \in Clients : RlSend(c)
    \/ \E c \in Clients : RlCloseCh(c)
    \/ \E c \in Clients : RlNext(c)
    \/ \E r \in Callers, c \in Clients : Request(r, c, <<MainChannel, "echo">>)
    \/ \E r \in Callers, cause \in CallerCauses : CancelCtx(r, cause)
    \/ \E r \in Callers : CallerLock(r)
    \/ \E r \in Callers : CallerAlloc(r)
    \/ \E r \in Callers, ok \in BOOLEAN : CallerWrite(r, ok)
    \/ \E r \in Callers : CallerReceive(r)
    \/ \E r \in Callers : CallerCtxDone(r)

SpecRequest == Init /\ [][NextRequest]_vars

(***************************************************************************)
(* One request and everything that can end it: a response (or two with     *)
(* the same id), the caller's cancellation, Client.Close by the            *)
(* application or by the read loop, and Server.Close.                      *)
(***************************************************************************)
NextAbort ==
    \/ AcceptFirst
    \/ \E c \in Clients : AcceptEmitOpen(c)
    \/ \E c \in Clients : RlStartAccepted(c)
    \/ \E c \in Clients : RlReadError(c)
    \/ \E c \in Clients : RlReadNil(c)
    \/ \E c \in Clients, m \in DataResponses : RlRead(c, m)
    \/ \E c \in Clients : RlEmitMessage(c)
    \/ \E c \in Clients : RlResp(c)
    \/ \E c \in Clients : RlSend(c)
    \/ \E c \in Clients : RlCloseCh(c)
    \/ \E c \in Clients : RlNext(c)
    \/ \E c \in Clients : RlErrC(c)
    \/ \E c \in Clients : RlErrS(c)
    \/ \E c \in Clients : UserClose(1, c)
    \/ \E t \in CloseThreads : CloseDelete(t)
    \/ \E t \in CloseThreads : CloseCancel(t)
    \/ \E t \in CloseThreads : CloseLock(t)
    \/ \E t \in CloseThreads : CloseEmitC(t)
    \/ \E t \in CloseThreads : CloseEmitS(t)
    \/ \E t \in CloseThreads : CloseConn(t, NoErr)
    \/ ServerCloseStart(1)
    \/ \E c \in Clients : ServerCloseClient(1, c)
    \/ ServerCloseAbort(1)
    \/ \E c \in Clients : Request(1, c, <<MainChannel, "echo">>)
    \/ \E cause \in CallerCauses : CancelCtx(1, cause)
    \/ CallerLock(1)
    \/ CallerAlloc(1)
    \/ \E ok \in BOOLEAN : CallerWrite(1, ok)
    \/ CallerReceive(1)
    \/ CallerClientDone(1)
    \/ CallerCtxDone(1)

SpecAbort == Init /\ [][NextAbort]_vars

(***************************************************************************)
(* Callers waiting while the client is closed: the application calls       *)
(* Client.Close once the read loop runs, or the transport fails and the    *)
(* read loop closes the client.  No caller's context is cancelled, so two  *)
(* cases of the select of sendRequest can become ready; a goroutine        *)
(* blocked in it runs as soon as one of them is.                           *)
(***************************************************************************)
CallerSelect(r) == CallerReceive(r) \/ CallerClientDone(r)

NextWaiting ==
    \/ AcceptFirst
    \/ \E c \in Clients : AcceptEmitOpen(c)
    \/ \E c \in Clients : RlStartAccepted(c)
    \/ \E c \in Clients : RlReadError(c)
    \/ \E c \in Clients, m \in DataResponses : RlRead(c, m)
    \/ \E c \in Clients : RlEmitMessage(c)
    \/ \E c \in Clients : RlResp(c)
    \/ \E c \in Clients : RlSend(c)
    \/ \E c \in Clients : RlCloseCh(c)
    \/ \E c \in Clients : RlNext(c)
    \/ \E c \in Clients : RlErrC(c)
    \/ \E c \in Clients : RlErrS(c)
    \/ \E c \in Clients : CloseRunning(c)
    \/ \E t \in CloseThreads : CloseDelete(t)
    \/ \E t \in CloseThreads : CloseCancel(t)
    \/ \E t \in CloseThreads : CloseLock(t)
    \/ \E t \in CloseThreads : CloseEmitC(t)
    \/ \E t \in CloseThreads : CloseEmitS(t)
    \/ \E t \in CloseThreads : CloseConn(t, NoErr)
    \/ \E r \in Callers, c \in Clients : Request(r, c, <<MainChannel, "echo">>)
    \/ \E r \in Callers : CallerLock(r)
    \/ \E r \in Callers : CallerAlloc(r)
    \/ \E r \in Callers, ok \in BOOLEAN : CallerWrite(r, ok)
    \/ \E r \in Callers : CallerSelect(r)

SpecWaiting ==
    /\ Init
    /\ [][NextWaiting]_vars
    /\ \A r \in Callers : WF_vars(CallerSelect(r))

(***************************************************************************)
(* Closing a client more than once: the application calls Client.Close     *)
(* several times, the read loop closes the client when the transport       *)
(* fails, close observers are registered on the client and on the server,  *)
(* and a caller sends a request before, between or after the closes.       *)
(***************************************************************************)
NextClose ==
    \/ AcceptFirst
    \/ \E c \in Clients : AcceptEmitOpen(c)
    \/ \E o \in Owners : On(o, FALSE, MainChannel, EventClose, HCloseObserver)
    \/ \E c \in Clients : RlStart(c)
    \/ \E c \in Clients : RlReadError(c)
    \/ \E c \in Clients : RlReadNil(c)
    \/ \E c \in Clients : RlErrC(c)
    \/ \E c \in Clients : RlErrS(c)
    \/ \E k \in 1..MaxUserCloses, c \in Clients : UserClose(k, c)
    \/ \E t \in CloseThreads : CloseDelete(t)
    \/ \E t \in CloseThreads : CloseCancel(t)
    \/ \E t \in CloseThreads : CloseLock(t)
    \/ \E t \in CloseThreads : CloseEmitC(t)
    \/ \E t \in CloseThreads : CloseEmitS(t)
    \/ \E t \in CloseThreads, err \in CloseErrors : CloseConn(t, err)
    \/ \E c \in Clients : Request(1, c, <<MainChannel, "echo">>)
    \/ CallerLock(1)
    \/ CallerAlloc(1)
    \/ \E ok \in BOOLEAN : CallerWrite(1, ok)
    \/ CallerClientDone(1)

SpecClose == Init /\ [][NextClose]_vars

(***************************************************************************)
(* Shutdown: connections are accepted, open and close observers are        *)
(* registered and the application calls Server.Close.  The read loops     *)
(* stay in ReadMessage: what they do once it fails comes after the close   *)
(* of their client.                                                        *)
(***************************************************************************)
HOpenObserver == <<OpenHandler, <<>>>>

NextShutdown ==
    \/ Accept
    \/ \E c \in Clients : AcceptEmitOpen(c)
    \/ On(Server, FALSE, MainChannel, EventOpen, HOpenObserver)
    \/ \E o \in Owners : On(o, FALSE, MainChannel, EventClose, HCloseObserver)
    \/ \E c \in Clients : RlStartAccepted(c)
    \/ \E c \in Clients : RlReadNil(c)
    \/ \E t \in CloseThreads : CloseCancel(t)
    \/ \E t \in CloseThreads : CloseLock(t)
    \/ \E t \in CloseThreads : CloseEmitC(t)
    \/ \E t \in CloseThreads : CloseEmitS(t)
    \/ \E t \in CloseThreads, err \in CloseErrors : CloseConn(t, err)
    \/ ServerCloseStart(1)
    \/ \E c \in Clients : ServerCloseClient(1, c)
    \/ ServerCloseAbort(1)

SpecShutdown == Init /\ [][NextShutdown]_vars

(***************************************************************************)
(* Server.Close called again once the first call has returned, with one    *)
(* connection, close observers and a caller whose request may be pending   *)
(* when the server is closed.                                              *)
(***************************************************************************)
\* ReadMessage fails once the transport has been closed
RlReadClosed(c) == transport[c].closes > 0 /\ RlReadError(c)

ServerCloseAgain == sclose[1].pc = "done" /\ ServerCloseStart(2)

NextShutdownTwice ==
    \/ AcceptFirst
    \/ \E c \in Clients : AcceptEmitOpen(c)
    \/ \E o \in Owners : On(o, FALSE, MainChannel, EventClose, HCloseObserver)
    \/ \E c \in Clients : RlStartAccepted(c)
    \/ \E c \in Clients : RlReadClosed(c)
    \/ \E c \in Clients : RlReadNil(c)
    \/ \E c \in Clients : RlErrC(c)
    \/ \E c \in Clients : RlErrS(c)
    \/ \E t \in CloseThreads : CloseDelete(t)
    \/ \E t \in CloseThreads : CloseCancel(t)
    \/ \E t \in CloseThreads : CloseLock(t)
    \/ \E t \in CloseThreads : CloseEmitC(t)
    \/ \E t \in CloseThreads : CloseEmitS(t)
    \/ \E t \in CloseThreads, err \in CloseErrors : CloseConn(t, err)
    \/ ServerCloseStart(1)
    \/ ServerCloseAgain
    \/ \E k \in 1..MaxServerCloses, c \in Clients : ServerCloseClient(k, c)
    \/ \E k \in 1..MaxServerCloses : ServerCloseAbort(k)
    \/ \E c \in Clients : Request(1, c, <<MainChannel, "echo">>)
    \/ CallerLock(1)
    \/ CallerAlloc(1)
    \/ \E ok \in BOOLEAN : CallerWrite(1, ok)
    \/ CallerReceive(1)
    \/ CallerClientDone(1)

SpecShutdownTwice == Init /\ [][NextShutdownTwice]_vars

(***************************************************************************)
(* SpecBroadcast: connections are accepted, one of them may be closed by   *)
(* its user, and the server broadcasts an event while a goroutine emits    *)
(* the same event to one client.                                           *)
(***************************************************************************)
EchoEvent == <<MainChannel, "echo">>

NextBroadcast ==
    \/ Accept
    \/ \E c \in Clients : AcceptEmitOpen(c)
    \/ \E c \in Clients : UserClose(1, c)
    \/ \E t \in CloseThreads : CloseDelete(t)
    \/ \E t \in CloseThreads : CloseCancel(t)
    \/ \E t \in CloseThreads : CloseLock(t)
    \/ \E t \in CloseThreads : CloseEmitC(t)
    \/ \E t \in CloseThreads : CloseEmitS(t)
    \/ \E t \in CloseThreads : CloseConn(t, NoErr)
    \/ \E c \in Clients : Emit(1, c, EchoEvent)
    \/ \E e \in Emitters : EmitLock(e)
    \/ \E e \in Emitters, ok \in BOOLEAN : EmitWrite(e, ok)
    \/ Broadcast(EchoEvent)
    \/ \E c \in Clients : BroadcastLock(c)
    \/ \E ok \in BOOLEAN : BroadcastWrite(ok)
    \/ BroadcastReturn

SpecBroadcast == Init /\ [][NextBroadcast]_vars

(***************************************************************************)
(* SpecHandlerRequest: one connection that stays open, with a handler for  *)
(* "echo".  The remote end first sends an "echo" message and from then on  *)
(* answers every request that is pending, with the request's id.  The      *)
(* handler either answers at once or calls Request on its own client;      *)
(* another goroutine calls Request too.  No context is cancelled and       *)
(* nothing is closed.  Every goroutine that can run does run, and the      *)
(* remote end goes on sending while it has something to send.              *)
(***************************************************************************)
\* the first message of the connection
RlReadFirst(c, m) == nread = 0 /\ RlRead(c, m)

\* the remote end answers a request that is pending
RlReadAnswer(c, m) == requestResponseCh[m.i] # 0 /\ RlRead(c, m)

NextHandlerRequest ==
    \/ AcceptFirst
    \/ \E c \in Clients : AcceptEmitOpen(c)
    \/ \E o \in Owners : On(o, FALSE, MainChannel, "echo", HEcho)
    \/ \E c \in Clients : RlStartAccepted(c)
    \/ \E c \in Clients, m \in EchoMsgs : RlReadFirst(c, m)
    \/ \E c \in Clients, m \in DataResponses : RlReadAnswer(c, m)
    \/ \E c \in Clients : RlEmitMessage(c)
    \/ \E c \in Clients : RlLookupC(c)
    \/ \E c \in Clients : RlLookupS(c)
    \/ \E c \in Clients : RlCall(c, FALSE)
    \/ \E c \in Clients, r \in Callers : RlCallRequest(c, r)
    \/ \E c \in Clients, r \in Callers : RlCallReturn(c, r)
    \/ \E c \in Clients : RlReply(c)
    \/ \E c \in Clients, ok \in BOOLEAN : RlWrite(c, ok)
    \/ \E c \in Clients : RlResp(c)
    \/ \E c \in Clients : RlSend(c)
    \/ \E c \in Clients : RlCloseCh(c)
    \/ \E c \in Clients : RlNext(c)
    \/ \E c \in Clients : RlErrC(c)
    \/ \E c \in Clients : RlErrS(c)
    \/ \E c \in Clients : Request(1, c, EchoEvent)
    \/ \E r \in Callers : CallerLock(r)
    \/ \E r \in Callers : CallerAlloc(r)
    \/ \E r \in Callers, ok \in BOOLEAN : CallerWrite(r, ok)
    \/ \E r \in Callers : CallerReceive(r)

SpecHandlerRequest ==
    /\ Init
    /\ [][NextHandlerRequest]_vars
    /\ WF_vars(NextHandlerRequest)

(***************************************************************************)
(* SpecReserved: on one open connection Emit, Request and the server's     *)
(* broadcast are called with each reserved event name, on the main         *)
(* channel and on the channel "io".                                        *)
(***************************************************************************)
ReservedNames ==
    {EventOpen, EventConnect, EventError, EventMessage, EventClose, EventDisconnect}

ReservedCalls == {<<ch, ev>> : ch \in {MainChannel, "io"}, ev \in ReservedNames}

NextReserved ==
    \/ AcceptFirst
    \/ \E c \in Clients : AcceptEmitOpen(c)
    \/ \E c \in Clients, ce \in ReservedCalls : Emit(1, c, ce)
    \/ \E e \in Emitters : EmitLock(e)
    \/ \E e \in Emitters, ok \in BOOLEAN : EmitWrite(e, ok)
    \/ \E c \in Clients, ce \in ReservedCalls : Request(1, c, ce)
    \/ \E r \in Callers : CallerLock(r)
    \/ \E r \in Callers : CallerAlloc(r)
    \/ \E r \in Callers, ok \in BOOLEAN : CallerWrite(r, ok)
    \/ \E ce \in ReservedCalls : Broadcast(ce)
    \/ \E c \in Clients : BroadcastLock(c)
    \/ \E ok \in BOOLEAN : BroadcastWrite(ok)
    \/ BroadcastReturn

SpecReserved == Init /\ [][NextReserved]_vars

(***************************************************************************)
(* SpecRegister: once a connection is open, On and Once are called on the  *)
(* server and on the client, for reserved and ordinary events on the main  *)
(* channel and on "io", with handlers of every shape checkHandler tells    *)
(* apart.                                                                  *)
(***************************************************************************)
HOneOut == <<<<>>, <<errorType>>>>
HNoOut == <<<<"string">>, <<>>>>
HThreeOut == <<<<"string">>, <<"string", "string", errorType>>>>
HLastNotError == <<<<"string">>, <<errorType, "string">>>>
HNotFunc == <<<<NotFunc>>, <<>>>>
HErrorObserver == <<ErrorHandler, <<>>>>
HMessageObserver == <<MessageHandler, <<>>>>

HandlerShapes ==
    {HEcho, HOneOut, HNoOut, HThreeOut, HLastNotError, HNotFunc, HNil,
     HOpenObserver, HErrorObserver, HMessageObserver, HCloseObserver}

RegisterKeys ==
    {<<MainChannel, "echo">>, <<"io", EventClose>>, <<MainChannel, EventOpen>>,
     <<MainChannel, EventError>>, <<MainChannel, EventMessage>>,
     <<MainChannel, EventClose>>}

\* a registration made after Accept has returned
OnAccepted(o, once, channel, eventName, f) ==
    /\ nextClient > 0
    /\ \A c \in Created : accepting[c] = "done"
    /\ On(o, once, channel, eventName, f)

NextRegister ==
    \/ AcceptFirst
    \/ \E c \in Clients : AcceptEmitOpen(c)
    \/ \E o \in Owners, once \in BOOLEAN, k \in RegisterKeys, f \in HandlerShapes :
          OnAccepted(o, once, k[1], k[2], f)

SpecRegister == Init /\ [][NextRegister]_vars

(***************************************************************************)
(* SpecReRegister: on one open connection handlers for "echo" are           *)
(* registered, replaced and removed (On and Once with a handler or with    *)
(* nil, on the main channel and on "io", on the client and on the server)  *)
(* while the remote end sends "echo" events and requests.                  *)
(***************************************************************************)
ReRegistrations ==
    {<<MainChannel, "echo", HEcho>>, <<MainChannel, "echo", HNil>>,
     <<"io", "echo", HEcho>>}

NextReRegister ==
    \/ AcceptFirst
    \/ \E c \in Clients : AcceptEmitOpen(c)
    \/ \E o \in Owners, once \in BOOLEAN, g \in ReRegistrations :
          On(o, once, g[1], g[2], g[3])
    \/ \E c \in Clients : RlStartAccepted(c)
    \/ \E c \in Clients, m \in EchoMsgs : RlRead(c, m)
    \/ \E c \in Clients : RlEmitMessage(c)
    \/ \E c \in Clients : RlLookupC(c)
    \/ \E c \in Clients : RlLookupS(c)
    \/ \E c \in Clients : RlCall(c, FALSE)
    \/ \E c \in Clients : RlReply(c)
    \/ \E c \in Clients : RlWrite(c, TRUE)
    \/ \E c \in Clients : RlNext(c)

SpecReRegister == Init /\ [][NextReRegister]_vars

(***************************************************************************)
(* SpecReadError: a connection whose transport fails on a read.  Error and *)
(* close observers are registered on the client and on the server, the     *)
(* remote end sends messages marked to be ignored, and nobody but the      *)
(* read loop closes the client.                                            *)
(***************************************************************************)
NextReadError ==
    \/ AcceptFirst
    \/ \E c \in Clients : AcceptEmitOpen(c)
    \/ \E o \in Owners, once \in BOOLEAN :
          On(o, once, MainChannel, EventError, HErrorObserver)
    \/ \E o \in Owners, once \in BOOLEAN :
          On(o, once, MainChannel, EventClose, HCloseObserver)
    \/ \E c \in Clients : RlStartAccepted(c)
    \/ \E c \in Clients, m \in InboundIgnored : RlRead(c, m)
    \/ \E c \in Clients : RlEmitMessage(c)
    \/ \E c \in Clients : RlNext(c)
    \/ \E c \in Clients : RlReadError(c)
    \/ \E c \in Clients : RlErrC(c)
    \/ \E c \in Clients : RlErrS(c)
    \/ \E t \in CloseThreads : CloseDelete(t)
    \/ \E t \in CloseThreads : CloseCancel(t)
    \/ \E t \in CloseThreads : CloseLock(t)
    \/ \E t \in CloseThreads : CloseEmitC(t)
    \/ \E t \in CloseThreads : CloseEmitS(t)
    \/ \E t \in CloseThreads, err \in CloseErrors : CloseConn(t, err)

SpecReadError == Init /\ [][NextReadError]_vars

(***************************************************************************)
(* SpecWriteFailure: on one connection the read loop answers requests for  *)
(* which there is no handler, one goroutine emits, one requests and one    *)
(* broadcasts; every write may fail.  The application closes nothing and   *)
(* no read fails.  Every goroutine that can run does run.                  *)
(***************************************************************************)
NextWriteFailure ==
    \/ AcceptFirst
    \/ \E c \in Clients : AcceptEmitOpen(c)
    \/ \E c \in Clients : RlStartAccepted(c)
    \/ \E c \in Clients, m \in EchoMsgs : RlRead(c, m)
    \/ \E c \in Clients : RlEmitMessage(c)
    \/ \E c \in Clients : RlLookupC(c)
    \/ \E c \in Clients : RlLookupS(c)
    \/ \E c \in Clients : RlReply(c)
    \/ \E c \in Clients, ok \in BOOLEAN : RlWrite(c, ok)
    \/ \E c \in Clients : RlNext(c)
    \/ \E c \in Clients : RlErrC(c)
    \/ \E c \in Clients : RlErrS(c)
    \/ \E t \in CloseThreads : CloseDelete(t)
    \/ \E t \in CloseThreads : CloseCancel(t)
    \/ \E t \in CloseThreads : CloseLock(t)
    \/ \E t \in CloseThreads : CloseEmitC(t)
    \/ \E t \in CloseThreads : CloseEmitS(t)
    \/ \E t \in CloseThreads : CloseConn(t, NoErr)
    \/ \E c \in Clients : Emit(1, c, EchoEvent)
    \/ \E e \in Emitters : EmitLock(e)
    \/ \E e \in Emitters, ok \in BOOLEAN : EmitWrite(e, ok)
    \/ \E c \in Clients : Request(1, c, EchoEvent)
    \/ \E r \in Callers : CallerLock(r)
    \/ \E r \in Callers : CallerAlloc(r)
    \/ \E r \in Callers, ok \in BOOLEAN : CallerWrite(r, ok)
    \/ \E r \in Callers : CallerClientDone(r)
    \/ Broadcast(EchoEvent)
    \/ \E c \in Clients : BroadcastLock(c)
    \/ \E ok \in BOOLEAN : BroadcastWrite(ok)
    \/ BroadcastReturn

SpecWriteFailure ==
    /\ Init
    /\ [][NextWriteFailure]_vars
    /\ WF_vars(NextWriteFailure)

(***************************************************************************)
(* SpecCloseRace: one connection is closed from every side: by the         *)
(* application, by Server.Close and by its read loop after a failed read,  *)
(* in any order and at the same time, with close observers registered on   *)
(* the client and on the server.                                           *)
(***************************************************************************)
NextCloseRace ==
    \/ AcceptFirst
    \/ \E c \in Clients : AcceptEmitOpen(c)
    \/ \E o \in Owners, once \in BOOLEAN :
          On(o, once, MainChannel, EventClose, HCloseObserver)
    \/ \E c \in Clients : RlStartAccepted(c)
    \/ \E c \in Clients : RlReadError(c)
    \/ \E c \in Clients : RlErrC(c)
    \/ \E c \in Clients : RlErrS(c)
    \/ \E k \in 1..MaxUserCloses, c \in Clients : UserClose(k, c)
    \/ ServerCloseStart(1)
    \/ \E c \in Clients : ServerCloseClient(1, c)
    \/ ServerCloseAbort(1)
    \/ \E t \in CloseThreads : CloseDelete(t)
    \/ \E t \in CloseThreads : CloseCancel(t)
    \/ \E t \in CloseThreads : CloseLock(t)
    \/ \E t \in CloseThreads : CloseEmitC(t)
    \/ \E t \in CloseThreads : CloseEmitS(t)
    \/ \E t \in CloseThreads : CloseConn(t, NoErr)

SpecCloseRace == Init /\ [][NextCloseRace]_vars

(***************************************************************************)
(* SpecObserve: one connection with a "message" observer on the client     *)
(* and a handler for "echo".  The remote end sends events, requests,       *)
(* responses and messages marked to be ignored; a goroutine has a request  *)
(* outstanding; the application may close the client.                      *)
(***************************************************************************)
NextObserve ==
    \/ AcceptFirst
    \/ \E c \in Clients : AcceptEmitOpen(c)
    \/ \E c \in Clients, once \in BOOLEAN :
          On(c, once, MainChannel, EventMessage, HMessageObserver)
    \/ On(Server, FALSE, MainChannel, "echo", HEcho)
    \/ \E c \in Clients : RlStartAccepted(c)
    \/ \E c \in Clients, m \in EchoMsgs \cup DataResponses \cup InboundIgnored :
          RlRead(c, m)
    \/ \E c \in Clients : RlEmitMessage(c)
    \/ \E c \in Clients : RlLookupC(c)
    \/ \E c \in Clients : RlLookupS(c)
    \/ \E c \in Clients : RlCall(c, FALSE)
    \/ \E c \in Clients : RlReply(c)
    \/ \E c \in Clients : RlWrite(c, TRUE)
    \/ \E c \in Clients : RlResp(c)
    \/ \E c \in Clients : RlSend(c)
    \/ \E c \in Clients : RlCloseCh(c)
    \/ \E c \in Clients : RlNext(c)
    \/ \E c \in Clients : Request(1, c, EchoEvent)
    \/ \E r \in Callers : CallerLock(r)
    \/ \E r \in Callers : CallerAlloc(r)
    \/ \E r \in Callers : CallerWrite(r, TRUE)
    \/ \E r \in Callers : CallerReceive(r)
    \/ \E r \in Callers : CallerClientDone(r)
    \/ \E c \in Clients : CloseRunning(c)
    \/ \E t \in CloseThreads : CloseDelete(t)
    \/ \E t \in CloseThreads : CloseCancel(t)
    \/ \E t \in CloseThreads : CloseLock(t)
    \/ \E t \in CloseThreads : CloseEmitC(t)
    \/ \E t \in CloseThreads : CloseEmitS(t)
    \/ \E t \in CloseThreads : CloseConn(t, NoErr)

SpecObserve == Init /\ [][NextObserve]_vars

(***************************************************************************)
(* Properties.                                                             *)
(***************************************************************************)

\* C1: for an inbound event or request, handleMessage takes the first handler
\* of the key in the order client once, client persistent, server once,
\* server persistent, and invokes at most that one handler.  When the client
\* holds a handler for the key as its tables are consulted, the server's
\* tables are not consulted: the server's handler is not invoked and its
\* once entry is not removed.
C1_LookupPriority ==
    [][\A c \in Clients :
        LET key == MsgKey(rl[c].msg)
            cOnce == handlersOnce[c][key]
            cOn == handlers[c][key]
            sOnce == handlersOnce[Server][key]
            sOn == handlers[Server][key]
        IN  /\ (rl[c].pc = "lookupC" /\ rl'[c].pc # "lookupC") =>
                IF cOnce # NoHandler
                THEN /\ rl'[c].h = cOnce /\ rl'[c].pc = "call"
                     /\ handlersOnce'[c][key] = NoHandler
                     /\ handlersOnce'[Server] = handlersOnce[Server]
                ELSE IF cOn # NoHandler
                THEN /\ rl'[c].h = cOn /\ rl'[c].pc = "call"
                     /\ handlersOnce' = handlersOnce
                ELSE /\ rl'[c].pc = "lookupS"
                     /\ handlersOnce' = handlersOnce
            /\ (rl[c].pc = "lookupS" /\ rl'[c].pc # "lookupS") =>
                /\ ~rl[c].cHad
                /\ IF sOnce # NoHandler
                   THEN /\ rl'[c].h = sOnce /\ rl'[c].pc = "call"
                        /\ handlersOnce'[Server][key] = NoHandler
                   ELSE IF sOn # NoHandler
                   THEN /\ rl'[c].h = sOn /\ rl'[c].pc = "call"
                        /\ handlersOnce' = handlersOnce
                   ELSE /\ rl'[c].h = NoHandler /\ rl'[c].pc \in {"reply", "handled"}
                        /\ handlersOnce' = handlersOnce
            /\ (rl[c].pc = "call" /\ rl'[c].pc # "call") =>
                \A id \in RegIds :
                    invoked'[id] # invoked[id] =>
                        id = rl[c].h.id /\ invoked'[id] = invoked[id] + 1
    ]_vars

\* C1 happens: a client's own handler has been invoked for a message while
\* the server holds a handler for the same key
C1_ClientHandlerWins ==
    \E c \in Clients :
        /\ rl[c].result.called
        /\ rl[c].src \in {"client once", "client on"}
        /\ \/ handlersOnce[Server][MsgKey(rl[c].msg)] # NoHandler
           \/ handlers[Server][MsgKey(rl[c].msg)] # NoHandler

\* C2: a handler registered with Once for a non-reserved key is invoked at
\* most once in total, whichever read loops dispatch matching messages: the
\* dispatch that selects it removes it from the once table, and a later
\* matching request that finds no handler is rejected with the no-listener
\* error.
C2_OnceAtMostOnce ==
    [][\A c \in Clients :
        LET m == rl[c].msg
            key == MsgKey(m)
        IN  /\ (rl[c].pc = "lookupC" /\ rl'[c].pc # "lookupC"
                    /\ handlersOnce[c][key] # NoHandler) =>
                /\ rl'[c].h = handlersOnce[c][key]
                /\ handlersOnce'[c][key] = NoHandler
            /\ (rl[c].pc = "lookupS" /\ rl'[c].pc # "lookupS"
                    /\ handlersOnce[Server][key] # NoHandler) =>
                /\ rl'[c].h = handlersOnce[Server][key]
                /\ handlersOnce'[Server][key] = NoHandler
            /\ (rl[c].pc = "call" /\ rl'[c].pc # "call"
                    /\ rl[c].src \in {"client once", "server once"}) =>
                /\ invoked[rl[c].h.id] = 0
                /\ invoked'[rl[c].h.id] <= 1
            /\ (rl[c].pc = "lookupS" /\ rl'[c].pc # "lookupS" /\ m.i # 0
                    /\ handlersOnce[Server][key] = NoHandler
                    /\ handlers[Server][key] = NoHandler) =>
                /\ rl'[c].pc = "reply"
                /\ rl'[c].reply.i = m.i
                /\ rl'[c].reply.d = NilVal
                /\ rl'[c].reply.e = StrV("no event listener for '" \o EventName(m) \o "'")
    ]_vars

\* C2 happens: two read loops dispatched the same request; one took the
\* server's once handler and invoked it, the other found no handler left and
\* is about to send the no-listener rejection
C2_SecondRequestRejected ==
    \E c, d \in Clients :
        /\ c # d
        /\ rl[d].src = "server once"
        /\ rl[d].result.called
        /\ invoked[rl[d].h.id] = 1
        /\ rl[c].pc = "reply"
        /\ rl[c].src = "none"
        /\ rl[c].reply.e = StrV("no event listener for 'echo'")

C5_OwnResponse ==
    \A r \in Callers :
        /\ \A k \in 1..Len(respCh[r].buf) :
              /\ respCh[r].buf[k].from.kind = "response"
              /\ respCh[r].buf[k].from.m.i = caller[r].id
        /\ (caller[r].pc = "done" /\ caller[r].out.via = "respCh") =>
              LET m == caller[r].out.from.m
                  out == caller[r].out
              IN  /\ out.from.kind = "response"
                  /\ m.i # 0 /\ m.i = caller[r].id
                  /\ (m.e = NilVal /\ m.d # NilVal) =>
                        out.data = m.d /\ out.err = NoErr
                  /\ (m.e.t = "string" /\ ~m.js) =>
                        out.data = NilVal /\ out.err = m.e.s
                  /\ (m.js /\ m.e.t = "object" /\ Len(m.e.e) > 0
                          /\ m.e.e[1].t = "string") =>
                        out.data = NilVal /\ out.err = m.e.e[1].s

\* C5 happens: two requests are outstanding and the response to the second
\* one, a JavaScript error, arrived first: its caller has returned the
\* error's message while the first caller still waits
C5_OutOfOrder ==
    /\ caller[1].pc = "wait" /\ caller[1].id = 1
    /\ caller[2].pc = "done" /\ caller[2].id = 2
    /\ caller[2].out.via = "respCh"
    /\ caller[2].out.from.m.i = 2
    /\ caller[2].out.from.m.js
    /\ caller[2].out.err = "js boom"

\* C6: over any interleaving of inbound responses (duplicates included),
\* Server.Close, caller cancellation and Client.Close, the response channel
\* of a request has at most one value sent on it and is closed at most once:
\* nothing is sent on or closes a closed channel (no panic), and no sender
\* finds the channel full.
C6_OneOutcome ==
    /\ panicked \notin {"send on closed channel", "close of closed channel"}
    /\ \A r \in Callers :
          /\ respCh[r].sent <= 1
          /\ Len(respCh[r].buf) <= respCh[r].sent
    /\ \A k \in 1..MaxServerCloses : sclose[k].pc # "blocked"
    /\ \A c \in Clients :
          rl[c].pc \in {"send", "closech"} =>
              /\ rl[c].rch # 0
              /\ ~respCh[rl[c].rch].closed
              /\ \A i \in ReqIds : requestResponseCh[i] # rl[c].rch
              /\ rl[c].pc = "send" => respCh[rl[c].rch].sent = 0

\* C6 happens: the response to a request has been delivered and its channel
\* closed, and a second response with the same id has been read and dropped
C6_DuplicateDropped ==
    \E c \in Clients :
        /\ rl[c].pc = "handled"
        /\ rl[c].msg.i # 0
        /\ rl[c].msg.i = caller[1].id
        /\ EventName(rl[c].msg) = ""
        /\ rl[c].rch = 0
        /\ respCh[1].sent = 1
        /\ respCh[1].closed
        /\ caller[1].pc = "done"
        /\ caller[1].out.from.kind = "response"

\* C7: when a client is closed, by Client.Close or by the read loop after a
\* transport failure, every caller waiting for a response on that client
\* returns: none remains blocked.  A caller whose response has not arrived
\* returns the error "awaiting response: client closed (status: <status>)",
\* with the status of the Close that cancelled the client's context.
C7_ClosedClientWakesCallers ==
    /\ \A r \in Callers :
          (caller[r].pc = "wait" /\ conn[caller[r].c] = Nil) ~> (caller[r].pc = "done")
    /\ [][\A r \in Callers :
            (caller[r].pc = "wait" /\ caller'[r].pc # "wait"
                /\ Len(respCh[r].buf) = 0) =>
                    /\ caller'[r].pc = "done"
                    /\ ctxCause[caller[r].c] # NoErr
                    /\ caller'[r].out.data = NilVal
                    /\ caller'[r].out.err \in
                          {"awaiting response: client closed (status: " \o st \o ")" :
                              st \in {StatusNormalClosure, StatusInternalError}}
       ]_vars

\* C7 happens: two callers waited on a client that the application closed,
\* and both have returned the client-closed error
C7_BothCallersReturned ==
    /\ caller[1].pc = "done" /\ caller[2].pc = "done"
    /\ caller[1].c = caller[2].c
    /\ caller[1].out.via = "ctxClient" /\ caller[2].out.via = "ctxClient"
    /\ caller[1].out.err = "awaiting response: client closed (status: StatusNormalClosure)"
    /\ caller[2].out.err = caller[1].out.err

\* C8: a caller whose outstanding request is ended by Server.Close returns
\* the error "request aborted".
C8_CallerGetsAborted ==
    \A r \in Callers :
        (/\ caller[r].pc = "done"
         /\ caller[r].out.via \in {"respCh", "ctxClient"}
         /\ caller[r].out.from.kind # "response"
         /\ ctxCause[caller[r].c] \in {NoErr, ClosedCause(StatusGoingAway)}) =>
            caller[r].out.err = "request aborted"

\* C9: a caller whose context is cancelled (or whose deadline passes) while
\* its request is outstanding, with no response delivered and the client
\* open, returns "awaiting response: <cause>" with its own context's cause.
\* The three ways a wait ends without a response give different errors:
\* the caller's cause, "client closed (status: ...)" and "request aborted".
C9_CancelledOutcome ==
    /\ [][\A r \in Callers :
            (/\ caller[r].pc = "wait" /\ caller'[r].pc # "wait"
             /\ caller[r].ctx # NoErr
             /\ Len(respCh[r].buf) = 0
             /\ ctxCause[caller[r].c] = NoErr) =>
                /\ caller'[r].pc = "done"
                /\ caller'[r].out.data = NilVal
                /\ caller'[r].out.err = "awaiting response: " \o caller[r].ctx
       ]_vars
    /\ [](\A r \in Callers :
            caller[r].pc = "done" =>
                LET e == caller[r].out.err
                    cancelled == e \in {"awaiting response: context canceled",
                                        "awaiting response: context deadline exceeded"}
                    closed == e \in {"awaiting response: client closed (status: "
                                        \o st \o ")" :
                                     st \in {StatusNormalClosure, StatusInternalError,
                                             StatusGoingAway}}
                    aborted == e = "request aborted"
                IN  /\ caller[r].out.via = "ctx" <=> cancelled
                    /\ caller[r].out.via = "ctxClient" <=> closed
                    /\ caller[r].out.from.kind = "abort" <=> aborted)

\* C9 happens: the caller's deadline passed while it waited on an open
\* client of an open server, and it has returned the deadline's error
C9_DeadlineReturned ==
    \E r \in Callers :
        /\ caller[r].pc = "done"
        /\ caller[r].out.via = "ctx"
        /\ caller[r].out.err = "awaiting response: context deadline exceeded"
        /\ ctxCause[caller[r].c] = NoErr
        /\ conn[caller[r].c] # Nil
        /\ ~clients.isNil

\* C10: a Close that finds the client already closed returns nil and changes
\* nothing: the transport is not closed again, no observer runs again, no
\* response channel is touched, nothing panics, and the client is left as
\* the first Close left it, so that later operations behave the same.
C10_SecondCloseIsNoOp ==
    [][\A t \in CloseThreads :
        (/\ closing[t].pc = "lock" /\ closing'[t].pc # "lock"
         /\ conn[closing[t].c] = Nil) =>
            /\ t[1] = "user" => closing'[t].pc = "ret" /\ closing'[t].err = NoErr
            /\ UNCHANGED <<conn, ctxCause, transport, fired, respCh,
                           requestResponseCh, panicked>>
            /\ UNCHANGED dataMu
    ]_vars

\* C11: a Request on a closed client fails fast: a caller that has reached
\* the dataMu section of sendRequest on a client whose conn is nil finds the
\* mutex free, so it is not blocked, and a caller that found conn nil there
\* returned "connection is closed" with no request id taken.
C11_ClosedFailsFast ==
    \A r \in Callers :
        /\ (caller[r].pc = "lock" /\ conn[caller[r].c] = Nil) =>
              dataMu[caller[r].c] = "free"
        /\ (caller[r].pc = "done" /\ caller[r].out.via = "closed") =>
              /\ caller[r].out.err = "connection is closed"
              /\ caller[r].id = 0

C14_AcceptOpenOrRefused ==
    /\ [](/\ clients.isNil => clients.set = {}
          /\ acceptErr \in {NoErr, "server is closed and cannot accept connections"}
          /\ acceptErr # NoErr => clients.isNil
          /\ \A c \in Clients :
                /\ Cardinality({i \in 1..Len(fired[c]) : fired[c][i].ev = EventOpen}) <= 1
                /\ c \notin Created => (rl[c].pc = "none" /\ accepting[c] = "none"
                                         /\ c \notin clients.set /\ fired[c] = <<>>))
    /\ [][/\ clients.isNil =>
                /\ <<nextClient, clients>>' = <<nextClient, clients>>
                /\ \A c \in Clients :
                      /\ rl[c].pc = "none" => rl'[c] = rl[c]
                      /\ accepting[c] = "none" => accepting'[c] = "none"
                      /\ fired'[c] # fired[c] =>
                            \A i \in Len(fired[c]) + 1..Len(fired'[c]) :
                                fired'[c][i].ev = EventOpen => accepting[c] = "open"
          /\ nextClient' # nextClient =>
                LET c == nextClient + 1
                IN  /\ ~clients.isNil /\ nextClient' = c
                    /\ clients' = [isNil |-> FALSE, set |-> clients.set \cup {c}]
                    /\ c \notin clients.set
                    /\ conn' = [conn EXCEPT ![c] = "conn"]
                    /\ rl[c].pc = "none" /\ rl'[c].pc = "start"
                    /\ \A d \in Clients \ {c} : rl'[d] = rl[d] /\ accepting'[d] = accepting[d]
                    /\ accepting'[c] = "open"
                    /\ acceptErr' = NoErr
                    /\ fired' = fired
          /\ \A c \in Clients :
                (accepting[c] = "open" /\ accepting'[c] # "open") =>
                    LET h == handlers[Server][handlerName(MainChannel, EventOpen)]
                    IN  /\ accepting'[c] = "done"
                        /\ fired' = IF h = NoHandler THEN fired
                                    ELSE [fired EXCEPT ![c] = Append(@,
                                            [ev |-> EventOpen, owner |-> Server,
                                             hs |-> {h.id}])]
       ]_vars

\* C14 happens: the first connection was accepted and the open observer
\* called about it, Server.Close began, and a later Accept was refused
C14_RefusedAfterClose ==
    /\ nextClient = 1
    /\ \E i \in 1..Len(fired[1]) : fired[1][i].ev = EventOpen
    /\ sclose[1].pc # "idle"
    /\ acceptErr = "server is closed and cannot accept connections"
    /\ rl[2].pc = "none"

\* C15: ServerChannel.Emit calls WriteMessage once for every client of the
\* live set (a client leaves the set before its conn becomes nil, and the
\* set cannot change while clientsMu is held); a failure does not end the
\* range; the list it returns has one
\* ClientError naming the client for each client whose send failed and none
\* for a client whose write succeeded, so with one failure among N clients
\* the other N-1 have received the message.
C15_BroadcastReachesAll ==
    /\ [](LET failed(c) == {i \in 1..Len(bcast.errs) : bcast.errs[i].c = c} IN
          /\ bcast.pc \in {"loop", "write"} =>
                /\ bcast.called \cup bcast.todo \cup
                       {bcast.errs[i].c : i \in 1..Len(bcast.errs)} = bcast.live
                /\ bcast.todo \cap (bcast.got \cup
                       {bcast.errs[i].c : i \in 1..Len(bcast.errs)}) = {}
          /\ (bcast.pc = "done" /\ ~RejectedAtCall(bcast.ch, bcast.ev)) =>
                /\ bcast.got \subseteq bcast.called
                /\ bcast.called = bcast.live
                /\ \A c \in bcast.live :
                      /\ c \in bcast.got => failed(c) = {}
                      /\ c \notin bcast.got => Cardinality(failed(c)) = 1
                      /\ c \notin bcast.called =>
                            \A i \in failed(c) :
                                bcast.errs[i].err = "connection is closed"
                /\ \A i \in 1..Len(bcast.errs) : bcast.errs[i].c \in bcast.live
                /\ Len(bcast.errs) = Cardinality(bcast.live \ bcast.got)
                /\ Len(bcast.errs) = 1 =>
                      Cardinality(bcast.got) = Cardinality(bcast.live) - 1)
    /\ [][(bcast.pc = "write" /\ bcast'.pc # "write") =>
                /\ bcast'.pc = "loop"
                /\ bcast'.todo = bcast.todo \ {bcast.cur}
                /\ bcast'.called = bcast.called
          ]_vars

\* C15 happens: the broadcast to two clients returned; the write to client 1
\* failed and client 2 received the message
C15_OneFailedOneReached ==
    /\ bcast.pc = "done"
    /\ bcast.live = {1, 2}
    /\ bcast.called = {1, 2}
    /\ bcast.got = {2}
    /\ bcast.errs = <<ClientError(1, "write failed")>>

\* the goroutines inside conn.WriteMessage of client c
Writers(c) ==
    {<<"emit", e>> : e \in {x \in Emitters : emitter[x].pc = "write" /\ emitter[x].c = c}}
    \cup {<<"request", r>> : r \in {x \in Callers : caller[x].pc = "write" /\ caller[x].c = c}}
    \cup (IF bcast.pc = "write" /\ bcast.cur = c THEN {<<"broadcast", 0>>} ELSE {})
    \cup (IF rl[c].pc = "write" THEN {<<"readloop", c>>} ELSE {})

\* C16: at most one call of WriteMessage is in progress on the transport of a
\* client at any time, whichever of ClientChannel.Emit, ClientChannel.Request,
\* ServerChannel.Emit and the read loop's response write are running.
C16_WritesSerialised == \A c \in Clients : Cardinality(Writers(c)) <= 1

\* C17: a handler that calls Request on its own client while the read loop
\* is dispatching it gets the response: once its request is written and the
\* remote end can still send, the call returns with the response sent for
\* it, with no cancellation and no close.
C17_HandlerRequestAnswered ==
    \A r \in Callers :
        (caller[r].by # 0 /\ caller[r].pc = "wait" /\ nread < MaxReads)
            ~> (caller[r].pc = "done" /\ caller[r].out.via = "respCh")

\* C18: Emit and Request of a ClientChannel and Emit of a ServerChannel,
\* called on the main channel with a reserved event name, return "cannot
\* emit reserved event '<name>' on main channel" (the broadcast as its only
\* ClientError, with no client), call WriteMessage on no transport and
\* allocate no request id; the step changes nothing but the caller's own
\* result.  With the same names on a named channel the message is written
\* (and the request id allocated) as for any other event.
C18_ReservedRejectedAtCall ==
    /\ [](/\ \A e \in Emitters :
                emitter[e].pc # "idle" =>
                    IF emitter[e].ch = MainChannel /\ emitter[e].ev \in ReservedNames
                    THEN /\ emitter[e].pc = "done"
                         /\ emitter[e].calls = 0
                         /\ emitter[e].err = "cannot emit reserved event '"
                                \o emitter[e].ev \o "' on main channel"
                    ELSE /\ emitter[e].pc \in {"write", "done"} => emitter[e].calls = 1
                         /\ emitter[e].err \in {NoErr, "write failed"}
          /\ \A r \in Callers :
                caller[r].pc # "idle" =>
                    IF caller[r].ch = MainChannel /\ caller[r].ev \in ReservedNames
                    THEN /\ caller[r].pc = "done"
                         /\ caller[r].id = 0
                         /\ caller[r].out.data = NilVal
                         /\ caller[r].out.err = "cannot emit reserved event '"
                                \o caller[r].ev \o "' on main channel"
                    ELSE /\ caller[r].pc \in {"write", "wait"} =>
                                (caller[r].id # 0 /\ requestResponseCh[caller[r].id] = r)
                         /\ caller[r].out.err \in {NoErr, "sending request: write failed"}
          /\ requestID = Cardinality({r \in Callers : caller[r].id # 0})
          /\ bcast.pc # "idle" =>
                IF bcast.ch = MainChannel /\ bcast.ev \in ReservedNames
                THEN /\ bcast.pc = "done"
                     /\ bcast.called = {}
                     /\ bcast.errs = <<[c |-> 0,
                            err |-> "cannot emit reserved event '" \o bcast.ev
                                    \o "' on main channel"]>>
                ELSE /\ bcast.pc = "done" => bcast.called = bcast.live
                     /\ \A i \in 1..Len(bcast.errs) : bcast.errs[i].c \in bcast.live)
    /\ [][/\ \A e \in Emitters :
                (emitter[e].pc = "idle" /\ emitter'[e].pc = "done") =>
                    UNCHANGED <<srvVars, tableVars, clientVars, threadVars, respCh,
                                logVars, bcast>>
          /\ \A r \in Callers :
                (caller[r].pc = "idle" /\ caller'[r].pc = "done") =>
                    UNCHANGED <<srvVars, tableVars, clientVars, respCh, logVars,
                                emitVars, rl, closing, sclose, accepting>>
          /\ (bcast.pc = "idle" /\ bcast'.pc = "done") =>
                    UNCHANGED <<srvVars, tableVars, clientVars, threadVars, respCh,
                                logVars, emitter>>
       ]_vars

\* C18 happens: Emit of "close" on the main channel and the broadcast of
\* "open" were rejected, and so was Request of "error", after a Request of
\* nothing else; on channel "io" the broadcast was not rejected
C18_MainRejectedNamedSent ==
    /\ emitter[1].pc = "done" /\ emitter[1].ch = MainChannel
    /\ emitter[1].ev = EventClose /\ emitter[1].calls = 0
    /\ caller[1].pc = "done" /\ caller[1].ch = MainChannel
    /\ caller[1].ev = EventError /\ requestID = 0
    /\ bcast.pc = "done" /\ bcast.ch = "io" /\ bcast.ev = EventOpen
    /\ bcast.live = {1} /\ bcast.got = {1} /\ bcast.errs = <<>>

\* the exact function type of a reserved event of the main channel
ReservedType(eventName) ==
    IF eventName \in {EventOpen, EventConnect} THEN OpenHandler
    ELSE IF eventName = EventError THEN ErrorHandler
    ELSE IF eventName = EventMessage THEN MessageHandler
    ELSE CloseHandler

C20_LastRegistrationWins ==
    /\ [](\A id \in RegIds :
            Cardinality({<<o, k, t>> \in Owners \X Keys \X {"on", "once"} :
                (IF t = "on" THEN handlers[o][k] ELSE handlersOnce[o][k]).id = id}) <= 1)
    /\ [][/\ (tableVars' # tableVars /\ UNCHANGED <<rl, closing, accepting>>) =>
                \E o \in Owners, k \in Keys :
                    \/ /\ handlersOnce' = handlersOnce
                       /\ \A p \in Owners, q \in Keys :
                            <<p, q>> # <<o, k>> => handlers'[p][q] = handlers[p][q]
                       /\ \/ handlers'[o][k] = NoHandler /\ regs' = regs
                          \/ handlers'[o][k].id = regs + 1 /\ regs' = regs + 1
                    \/ /\ handlers' = handlers
                       /\ \A p \in Owners, q \in Keys :
                            <<p, q>> # <<o, k>> => handlersOnce'[p][q] = handlersOnce[p][q]
                       /\ \/ handlersOnce'[o][k] = NoHandler /\ regs' = regs
                          \/ handlersOnce'[o][k].id = regs + 1 /\ regs' = regs + 1
          /\ regs' # regs =>
                \E o \in Owners, k \in Keys :
                    regs' \in {handlers'[o][k].id, handlersOnce'[o][k].id}
          /\ \A c \in Clients :
                LET key == <<rl[c].msg.c, rl[c].msg.a[1].s>>
                    text == IF key[1] = ""
                            THEN "no event listener for '" \o key[2] \o "'"
                            ELSE "no event listener for '" \o key[2]
                                 \o "' on channel '" \o key[1] \o "'"
                IN  /\ (rl[c].pc = "lookupC" /\ rl'[c].pc # "lookupC") =>
                        /\ rl'[c].h \in {handlersOnce[c][key], handlers[c][key]}
                        /\ rl'[c].h = NoHandler =>
                              (handlersOnce[c][key] = NoHandler
                               /\ handlers[c][key] = NoHandler)
                    /\ (rl[c].pc = "lookupS" /\ rl'[c].pc # "lookupS") =>
                        /\ rl'[c].h \in {handlersOnce[Server][key], handlers[Server][key]}
                        /\ IF handlersOnce[Server][key] = NoHandler
                              /\ handlers[Server][key] = NoHandler
                           THEN /\ rl'[c].h = NoHandler
                                /\ rl[c].msg.i # 0 =>
                                     (rl'[c].pc = "reply"
                                      /\ rl'[c].reply.i = rl[c].msg.i
                                      /\ rl'[c].reply.e = StrV(text))
                           ELSE rl'[c].h # NoHandler /\ rl'[c].pc = "call"
                    /\ (rl[c].pc = "call" /\ rl'[c].pc # "call") =>
                        \A id \in RegIds :
                            invoked'[id] # invoked[id] => id = rl[c].h.id
       ]_vars

\* C20 happens: two handlers were registered for "echo"; a request was
\* dispatched to the second, taken from the client's persistent table, and
\* never to the first; since then the entry has been removed with nil, so
\* that no table holds a handler
C20_ReplacedThenRemoved ==
    /\ regs = 2 /\ invoked = [id \in RegIds |-> IF id = 2 THEN 1 ELSE 0]
    /\ rl[1].pc = "reply" /\ rl[1].src = "client on" /\ rl[1].h.id = 2
    /\ rl[1].msg.c = MainChannel /\ rl[1].msg.i # 0
    /\ \A o \in Owners, k \in Keys :
            handlers[o][k] = NoHandler /\ handlersOnce[o][k] = NoHandler

\* the place of an observer call in the order of a client's life
ObserverRank(c, call) ==
    IF call.ev = EventOpen THEN 0
    ELSE IF call.ev = EventMessage THEN 1
    ELSE IF call.ev = EventError THEN (IF call.owner = c THEN 2 ELSE 3)
    ELSE (IF call.owner = c THEN 4 ELSE 5)

WriteFailed(c) ==
    \/ rl[c].err = "handle message: write failed"
    \/ \E e \in Emitters : emitter[e].c = c /\ emitter[e].err = "write failed"
    \/ \E r \in Callers : caller[r].c = c /\ caller[r].out.via = "write"
    \/ \E i \in 1..Len(bcast.errs) : bcast.errs[i] = ClientError(c, "write failed")

\* C22: a failed write on the transport of a client leads to the close of
\* that client, whether the read loop was writing a response, Emit or the
\* broadcast an event, or Request a request.
C22_WriteFailureCloses ==
    \A c \in Clients : WriteFailed(c) ~> (conn[c] = Nil /\ transport[c].closes > 0)

\* C23: however many goroutines close a client (the application, more than
\* once, Server.Close, the read loop), exactly one of the calls finds conn
\* set: it calls the close observers of the client and then those of the
\* server, once each, with the handlers registered at that moment, and
\* closes the transport; every other call calls no observer.  So the close
\* observers of each owner are called at most once about a client, no
\* handler is called twice, and they are called once the client is closed.
C23_CloseObserversOnce ==
    /\ [](\A c \in Clients :
            /\ \A o \in Owners :
                  Cardinality({i \in 1..Len(fired[c]) :
                      fired[c][i].ev = EventClose /\ fired[c][i].owner = o}) <= 1
            /\ \A id \in RegIds :
                  Cardinality({i \in 1..Len(fired[c]) :
                      fired[c][i].ev = EventClose /\ id \in fired[c][i].hs}) <= 1
            /\ Cardinality({t \in CloseThreads :
                  closing[t].c = c /\ closing[t].pc \in {"emitC", "emitS", "conn"}}) <= 1
            /\ transport[c].closes <= 1
            /\ transport[c].closes = 1 => conn[c] = Nil)
    /\ [][\A t \in CloseThreads :
            LET c == closing[t].c
                called(o) ==
                    LET once == handlersOnce[o][handlerName(MainChannel, EventClose)]
                        on == handlers[o][handlerName(MainChannel, EventClose)]
                        ids == {h.id : h \in {once, on} \ {NoHandler}}
                    IN  IF ids = {} THEN fired[c]
                        ELSE Append(fired[c], [ev |-> EventClose, owner |-> o, hs |-> ids])
            IN  /\ (closing[t].pc = "lock" /\ closing'[t].pc # "lock") =>
                        IF conn[c] = Nil
                        THEN /\ closing'[t].pc \in {"ret", "idle"}
                             /\ UNCHANGED <<fired, transport, conn, tableVars>>
                        ELSE closing'[t].pc = "emitC" /\ conn'[c] = Nil
                /\ (closing[t].pc = "emitC" /\ closing'[t].pc # "emitC") =>
                        closing'[t].pc = "emitS" /\ fired'[c] = called(c)
                /\ (closing[t].pc = "emitS" /\ closing'[t].pc # "emitS") =>
                        closing'[t].pc = "conn" /\ fired'[c] = called(Server)
                /\ (closing[t].pc = "conn" /\ closing'[t].pc # "conn") =>
                        transport'[c].closes = 1
         ]_vars
    /\ [][\A c \in Clients :
            (/\ Len(fired'[c]) > Len(fired[c])
             /\ fired'[c][Len(fired'[c])].ev = EventClose) =>
                \E t \in CloseThreads :
                    /\ closing[t].c = c /\ closing[t].pc \in {"emitC", "emitS"}
                    /\ closing'[t].pc # closing[t].pc
         ]_vars

\* C23 happens: the application, Server.Close and the read loop have all
\* called Close on client 1, and its close observers, one on the client and
\* one on the server, have been called once each
C23_ThreeClosersOneCall ==
    /\ closing[<<"user", 1>>].pc # "idle"
    /\ rl[1].pc \in {"close", "exit"}
    /\ 1 \in sclose[1].clients /\ 1 \notin sclose[1].todo
    /\ Len(fired[1]) = 2
    /\ fired[1][1].ev = EventClose /\ fired[1][1].owner = 1
    /\ fired[1][2].ev = EventClose /\ fired[1][2].owner = Server
    /\ transport[1].closes = 1

\* C24: every message read while the client's context is live is passed to
\* the client's "message" observers of the main channel first: the read
\* loop goes from ReadMessage to emitMessage and only from there to the
\* lookup of a handler, to the lookup of a pending request or, for a message
\* marked to be ignored, back to reading.  emitMessage calls the observers
\* registered at that moment and touches no handler for the message, no
\* pending request and no response channel.
C24_MessageObservedFirst ==
    /\ [](\A c \in Clients :
            rl[c].pc \in {"read", "emitmsg"} =>
                (rl[c].h = NoHandler /\ rl[c].calls = 0 /\ rl[c].rch = 0
                 /\ rl[c].wrote = 0))
    /\ [][\A c \in Clients :
            LET m == rl[c].msg
                once == handlersOnce[c][handlerName(MainChannel, EventMessage)]
                on == handlers[c][handlerName(MainChannel, EventMessage)]
                ids == {h.id : h \in {once, on} \ {NoHandler}}
            IN  /\ (rl[c].pc = "read" /\ rl'[c].pc # "read") =>
                        /\ rl'[c].pc \in {"emitmsg", "exit", "errC"}
                        /\ rl'[c].pc = "emitmsg" <=> (nread' = nread + 1 /\ ctxCause[c] = NoErr)
                        /\ UNCHANGED <<fired, invoked, respCh, requestResponseCh, tableVars>>
                /\ (rl'[c].pc \in {"lookupC", "lookupS", "call", "resp", "send"}
                    /\ rl[c].pc \notin {"lookupC", "lookupS", "call", "resp", "send"}) =>
                        rl[c].pc = "emitmsg"
                /\ (rl[c].pc = "emitmsg" /\ rl'[c].pc # "emitmsg") =>
                        /\ fired'[c] = IF ids = {} THEN fired[c]
                                       ELSE Append(fired[c], [ev |-> EventMessage,
                                                owner |-> c, hs |-> ids])
                        /\ rl'[c].pc = IF m.ign = "false" THEN "handled"
                                       ELSE IF Len(m.a) > 0 THEN "lookupC"
                                       ELSE IF m.i # 0 THEN "resp"
                                       ELSE "handled"
                        /\ rl'[c].msg = m
                        /\ UNCHANGED <<invoked, respCh, requestResponseCh, handlers>>
         ]_vars

\* C24 happens: the observer was called about the first message and then
\* about the second, which was marked to be ignored and has been dropped
C24_DroppedMessageObserved ==
    /\ nread = 2 /\ rl[1].pc = "handled" /\ rl[1].msg.ign = "false"
    /\ Len(fired[1]) = 2
    /\ fired[1][1].ev = EventMessage /\ fired[1][2].ev = EventMessage
    /\ fired[1][2].hs = fired[1][1].hs

\* C25: a response that carries a request id but neither data nor an error
\* gives the awaiting Request an error, never a nil error.
C25_EmptyResponseIsMalformed ==
    \A r \in Callers :
        (/\ caller[r].pc = "done"
         /\ caller[r].out.via = "respCh"
         /\ caller[r].out.from.kind = "response"
         /\ caller[r].out.from.m.d = NilVal
         /\ caller[r].out.from.m.e = NilVal) =>
            caller[r].out.err # NoErr

(***************************************************************************)
(* Arguments: handlers of several shapes are registered for "echo" on the  *)
(* server, and the remote end sends events and requests for "echo" whose   *)
(* arguments fit the handler, are too many or too few, are of a type that  *)
(* does not convert, or are null.  Every response write succeeds and       *)
(* nothing closes the client.                                              *)
(***************************************************************************)
HCtxInt == <<<<contextType, "int">>, <<"int", errorType>>>>
HInts == <<<<"[]int">>, <<"[]int", errorType>>>>
HErrOnly == <<<<"string">>, <<errorType>>>>
ArgumentHandlers == {HEcho, HCtxInt, HInts, HErrOnly, HOneOut}

ArgumentLists ==
    {<<>>,
     <<StrV("hi")>>,
     <<IntV(4)>>,
     <<FloatV(25)>>,
     <<Slice("[]float64", <<FloatV(10), FloatV(25)>>)>>,
     <<NilVal>>,
     <<StrV("hi"), IntV(4)>>,
     <<NilVal, StrV("hi")>>}
ArgumentMsgs ==
    {Message(MainChannel, <<StrV("echo")>> \o args, i, NilVal, NilVal, FALSE, "nil") :
        args \in ArgumentLists, i \in InboundRequestIds}

NextArguments ==
    \/ AcceptFirst
    \/ \E c \in Clients : AcceptEmitOpen(c)
    \/ \E f \in ArgumentHandlers : OnAccepted(Server, FALSE, MainChannel, "echo", f)
    \/ \E c \in Clients : RlStartAccepted(c)
    \/ \E c \in Clients, m \in ArgumentMsgs : RlRead(c, m)
    \/ \E c \in Clients : RlEmitMessage(c)
    \/ \E c \in Clients : RlLookupC(c)
    \/ \E c \in Clients : RlLookupS(c)
    \/ \E c \in Clients, fails \in BOOLEAN : RlCall(c, fails)
    \/ \E c \in Clients : RlReply(c)
    \/ \E c \in Clients : RlWrite(c, TRUE)
    \/ \E c \in Clients : RlNext(c)

SpecArguments == Init /\ [][NextArguments]_vars

\* the parameters of a handler that take an argument of the message
ArgParams(h) ==
    IF Len(h.in) > 0 /\ h.in[1] = contextType
    THEN SubSeq(h.in, 2, Len(h.in)) ELSE h.in

\* an argument converts to a parameter type directly, or element by element
\* when both are slices
Fits(v, T) ==
    \/ ConvertibleTo(v.t, T)
    \/ /\ Kind(v.t) = "slice" /\ Kind(T) = "slice"
       /\ ConvertibleTo(Elem(v.t), Elem(T))

CountMismatch(h, args) == Len(args) # Len(ArgParams(h))
TypeMismatch(h, args) ==
    /\ ~CountMismatch(h, args)
    /\ \E i \in 1..Len(args) : ~Fits(args[i], ArgParams(h)[i])

\* the read loop of c is past callHandler for the message it holds
PastCall(c) ==
    /\ rl[c].h # NoHandler
    /\ rl[c].pc \in {"reply", "write", "handled", "panic"}

\* C26: a message whose argument count differs from the handler's parameter
\* count, or one of whose arguments does not convert to its parameter type,
\* does not invoke the handler and does not end the program or the read loop;
\* a request gets the mismatch error as its one rejected response, an event
\* causes no write, and a count mismatch is reported whatever the arguments.
C26_MismatchRejected ==
    \A c \in Clients :
        LET m == rl[c].msg
            h == rl[c].h
            args == HandlerArguments(m)
            text == IF CountMismatch(h, args)
                    THEN "incorrect number of arguments"
                    ELSE "argument type mismatch"
        IN  (PastCall(c) /\ (CountMismatch(h, args) \/ TypeMismatch(h, args))) =>
                /\ panicked = ""
                /\ ~rl[c].result.called
                /\ rl[c].calls = 0
                /\ rl[c].result.err = text
                /\ m.i # 0 => rl[c].reply = RejectMessage(m.i, text)
                /\ m.i = 0 => rl[c].wrote = 0
                /\ (m.i # 0 /\ rl[c].pc = "handled") => rl[c].wrote = 1
                /\ conn[c] # Nil /\ transport[c].closes = 0

\* w is v converted to the scalar type T: v itself when it has the type, a
\* float64 truncated to an int, an int widened to a float64
ConvertedScalar(v, T, w) ==
    /\ w.t = T
    /\ v.t = T => w = v
    /\ (v.t = "float64" /\ T = "int") => w.n = v.n \div 10
    /\ (v.t = "int" /\ T = "float64") => w.n = v.n * 10

\* w is the value the handler must receive for argument v and parameter T
Converted(v, T, w) ==
    IF ConvertibleTo(v.t, T) THEN ConvertedScalar(v, T, w)
    ELSE /\ w.t = T
         /\ Len(w.e) = Len(v.e)
         /\ \A j \in 1..Len(v.e) : ConvertedScalar(v.e[j], Elem(T), w.e[j])

C27_ContextCall ==
    \E c \in Clients :
        /\ PastCall(c)
        /\ rl[c].result.called
        /\ rl[c].h.in = HCtxInt[1]
        /\ HandlerArguments(rl[c].msg) = <<FloatV(25)>>
        /\ rl[c].result.res = IntV(2)

\* a handler declaring only an error returned its error with a nil result
C27_ErrorOnlyCall ==
    \E c \in Clients :
        /\ PastCall(c)
        /\ rl[c].result.called
        /\ rl[c].h.out = HErrOnly[2]
        /\ rl[c].result.err # NoErr
        /\ rl[c].result.res = NilVal

OrderRequestIds == {0, 1, 2}
OrderMsgs ==
    {Message(MainChannel, <<StrV("echo"), StrV("hi")>>, i, NilVal, NilVal, FALSE, "nil") :
        i \in OrderRequestIds}

NextOrder ==
    \/ Accept
    \/ \E c \in Clients : AcceptEmitOpen(c)
    \/ OnAccepted(Server, FALSE, MainChannel, "echo", HEcho)
    \/ \E c \in Clients : RlStartAccepted(c)
    \/ \E c \in Clients, m \in OrderMsgs : RlRead(c, m)
    \/ \E c \in Clients : RlEmitMessage(c)
    \/ \E c \in Clients : RlLookupC(c)
    \/ \E c \in Clients : RlLookupS(c)
    \/ \E c \in Clients, fails \in BOOLEAN : RlCall(c, fails)
    \/ \E c \in Clients : RlReply(c)
    \/ \E c \in Clients : RlWrite(c, TRUE)
    \/ \E c \in Clients : RlNext(c)

SpecOrder == Init /\ [][NextOrder]_vars

\* the read loop of c holds a message it has read and not finished with
InFlight(c) ==
    rl[c].pc \in {"emitmsg", "lookupC", "lookupS", "call", "incall", "reply", "write",
                 "resp", "send", "closech", "handled"}

\* C28: on one connection, as long as no write fails and nothing closes it,
\* the requests read and the responses written alternate, each response
\* carrying the id of the request read just before it: a request is answered
\* before the next message is read, so responses leave in arrival order.  The
\* handler is called only for the message the loop holds, a message is read
\* only by a loop that holds none, and a connection gets one read loop.
C28_OneMessageAtATime ==
    /\ [](\A c \in Clients :
            /\ \A k \in 1..Len(wire[c]) :
                  IF wire[c][k][1] = "response"
                  THEN k > 1 /\ wire[c][k - 1] = <<"request", wire[c][k][2]>>
                  ELSE k > 1 => wire[c][k - 1][1] = "response"
            /\ (InFlight(c) /\ IsRequest(rl[c].msg)) =>
                  /\ Len(wire[c]) > 0
                  /\ wire[c][Len(wire[c])][2] = rl[c].msg.i)
    /\ [][\A c \in Clients :
            /\ (rl'[c].msg # rl[c].msg /\ rl'[c].msg # NoMessage) =>
                  rl[c].pc = "read" /\ rl[c].calls = 0 /\ rl[c].wrote = 0
            /\ rl'[c].calls > rl[c].calls =>
                  rl[c].pc = "call" /\ rl'[c].msg = rl[c].msg
            /\ (rl'[c].pc = "start" /\ rl[c].pc # "start") => rl[c].pc = "none"]_vars

\* one connection has read request 2 and then request 1 and has answered
\* them in that order
C28_TwoAnswersInOrder ==
    \E c \in Clients :
        wire[c] = <<<<"request", 2>>, <<"response", 2>>,
                    <<"request", 1>>, <<"response", 1>>>>

\* the goroutines that are inside conn.WriteMessage
InsideWrite ==
    {<<"rl", c>> : c \in {d \in Clients : rl[d].pc = "write"}}
    \cup {<<"request", r>> : r \in {q \in Callers : caller[q].pc = "write"}}
    \cup {<<"emit", e>> : e \in {f \in Emitters : emitter[f].pc = "write"}}
    \cup {<<"broadcast", 0>> : x \in {y \in {0} : bcast.pc = "write"}}

\* the locks goroutine g holds across its steps: ServerChannel.Emit keeps
\* clientsMu from its Lock to its return; every other locked section of the
\* goroutines above is over before the write begins
LocksHeld(g) ==
    IF g[1] = "broadcast" /\ ClientsMuHeld THEN {"clientsMu"} ELSE {}

\* C29: a goroutine that is inside a transport WriteMessage call holds no
\* lock; this covers the read loop's responses, Request, ClientChannel.Emit
\* and ServerChannel.Emit.
C29_NoLockAcrossWrite == \A g \in InsideWrite : LocksHeld(g) = {}

(***************************************************************************)
(* Request ids: callers make requests on two connections of one server at  *)
(* the same time; the remote ends answer the requests that are pending,    *)
(* on either connection, and request writes fail or succeed.               *)
(***************************************************************************)
NextIds ==
    \/ Accept
    \/ \E c \in Clients : AcceptEmitOpen(c)
    \/ \E c \in Clients : RlStartAccepted(c)
    \/ \E c \in Clients, m \in DataResponses : RlReadAnswer(c, m)
    \/ \E c \in Clients : RlEmitMessage(c)
    \/ \E c \in Clients : RlResp(c)
    \/ \E c \in Clients : RlSend(c)
    \/ \E c \in Clients : RlCloseCh(c)
    \/ \E c \in Clients : RlNext(c)
    \/ \E r \in Callers, c \in Clients : Request(r, c, EchoEvent)
    \/ \E r \in Callers : CallerLock(r)
    \/ \E r \in Callers : CallerAlloc(r)
    \/ \E r \in Callers, ok \in BOOLEAN : CallerWrite(r, ok)
    \/ \E r \in Callers : CallerReceive(r)

SpecIds == Init /\ [][NextIds]_vars

\* C30: the request ids one server issues start at 1 and go up by one with
\* every request, whatever the client and the caller; no two requests get
\* the same id, the id being issued is not a key of the pending-request map,
\* and no Request returns "request ID already in use".
C30_RequestIdsUnique ==
    /\ [](/\ \A r \in Callers : caller[r].id # 0 => caller[r].id \in 1..requestID
          /\ \A r, q \in Callers :
                (r # q /\ caller[r].id # 0 /\ caller[q].id # 0) =>
                    caller[r].id # caller[q].id
          /\ \A r \in Callers :
                ~(caller[r].pc = "done" /\ caller[r].out.via = "inuse"))
    /\ [][requestID' # requestID =>
            /\ requestID' = requestID + 1
            /\ requestResponseCh[requestID'] = 0
            /\ \E r \in Callers :
                  /\ caller[r].id = 0
                  /\ caller'[r].id = requestID'
                  /\ requestResponseCh'[requestID'] = r]_vars

\* two callers have requests pending on different clients, with the ids 1
\* and 2
C30_TwoClientsTwoIds ==
    \E r, q \in Callers :
        /\ caller[r].c # caller[q].c
        /\ caller[r].id = 1 /\ caller[q].id = 2
        /\ requestResponseCh[1] = r /\ requestResponseCh[2] = q

\* C31: once a Request call has returned, whatever ended it, the pending-
\* request map holds no entry for the id it was given.
C31_ReturnedRequestNotPending ==
    \A r \in Callers :
        (caller[r].pc = "done" /\ caller[r].id # 0) =>
            requestResponseCh[caller[r].id] # r

(***************************************************************************)
(* Ignored messages: one connection with a handler of "echo" registered    *)
(* on the server with On or Once and a request outstanding.  The remote    *)
(* end sends events, requests and responses, some of them with the         *)
(* "ws-wrapper" flag set to false.  Every write succeeds.                  *)
(***************************************************************************)
IgnoredMsgs ==
    InboundIgnored
    \cup {Message("", <<>>, 1, StrV("ok"), NilVal, FALSE, "false")}

NextIgnore ==
    \/ AcceptFirst
    \/ \E c \in Clients : AcceptEmitOpen(c)
    \/ \E once \in BOOLEAN : OnAccepted(Server, once, MainChannel, "echo", HEcho)
    \/ \E c \in Clients : RlStartAccepted(c)
    \/ \E c \in Clients, m \in IgnoredMsgs \cup EchoMsgs \cup DataResponses : RlRead(c, m)
    \/ \E c \in Clients : RlEmitMessage(c)
    \/ \E c \in Clients : RlLookupC(c)
    \/ \E c \in Clients : RlLookupS(c)
    \/ \E c \in Clients : RlCall(c, FALSE)
    \/ \E c \in Clients : RlReply(c)
    \/ \E c \in Clients : RlWrite(c, TRUE)
    \/ \E c \in Clients : RlResp(c)
    \/ \E c \in Clients : RlSend(c)
    \/ \E c \in Clients : RlCloseCh(c)
    \/ \E c \in Clients : RlNext(c)
    \/ \E c \in Clients : Request(1, c, EchoEvent)
    \/ \E r \in Callers : CallerLock(r)
    \/ \E r \in Callers : CallerAlloc(r)
    \/ \E r \in Callers : CallerWrite(r, TRUE)
    \/ \E r \in Callers : CallerReceive(r)

SpecIgnore == Init /\ [][NextIgnore]_vars

\* C32: a message read with the flag present and false is dropped: while the
\* read loop holds it no handler is looked up or called, no entry of a once
\* table is taken, nothing is written, no pending request is looked up,
\* deleted or resolved, and from emitMessage the loop goes straight back to
\* ReadMessage.
C32_IgnoredMessageDropped ==
    /\ [](\A c \in Clients :
            (InFlight(c) /\ rl[c].msg.ign = "false") =>
                /\ rl[c].pc \in {"emitmsg", "handled"}
                /\ rl[c].h = NoHandler /\ rl[c].calls = 0
                /\ rl[c].wrote = 0 /\ rl[c].rch = 0)
    /\ [][\A c \in Clients :
            (InFlight(c) /\ rl[c].msg.ign = "false" /\ rl'[c] # rl[c]) =>
                /\ rl'[c].pc = IF rl[c].pc = "emitmsg" THEN "handled" ELSE "read"
                /\ UNCHANGED <<handlers, handlersOnce, invoked, requestResponseCh,
                               respCh, wire, conn, transport>>]_vars

\* a request for "echo" and a response to request 1, both flagged, were
\* dropped while a once handler of "echo" was registered and request 1 was
\* pending: the handler is still registered and the request still pending
C32_FlaggedRequestAndResponseDropped ==
    \E c \in Clients :
        /\ nread = 2
        /\ rl[c].pc = "handled"
        /\ rl[c].msg = Message("", <<>>, 1, StrV("ok"), NilVal, FALSE, "false")
        /\ wire[c] = <<<<"request", 1>>>>
        /\ handlersOnce[Server][handlerName(MainChannel, "echo")] # NoHandler
        /\ requestResponseCh[1] # 0
        /\ \A r \in Callers : caller[r].pc # "done"

(***************************************************************************)
(* Messages without an event name: one connection with an "error"          *)
(* observer and callers with requests outstanding.  The remote end sends   *)
(* messages that have no arguments, or a first argument that is no string, *)
(* with no request id, with the id of a pending request, with the id of a  *)
(* request already answered, and with an id that was never issued.         *)
(***************************************************************************)
UnknownRequestId == MaxRequests + 1
NamelessMsgs ==
    {Message("", a, i, StrV("ok"), NilVal, FALSE, "nil") :
        a \in {<<>>, <<IntV(4)>>}, i \in ReqIds \cup {0, UnknownRequestId}}

NextNameless ==
    \/ AcceptFirst
    \/ \E c \in Clients : AcceptEmitOpen(c)
    \/ \E o \in Owners : OnAccepted(o, FALSE, MainChannel, EventError, HErrorObserver)
    \/ \E c \in Clients : RlStartAccepted(c)
    \/ \E c \in Clients, m \in NamelessMsgs : RlRead(c, m)
    \/ \E c \in Clients : RlEmitMessage(c)
    \/ \E c \in Clients : RlResp(c)
    \/ \E c \in Clients : RlSend(c)
    \/ \E c \in Clients : RlCloseCh(c)
    \/ \E c \in Clients : RlNext(c)
    \/ \E r \in Callers, c \in Clients : Request(r, c, EchoEvent)
    \/ \E r \in Callers : CallerLock(r)
    \/ \E r \in Callers : CallerAlloc(r)
    \/ \E r \in Callers : CallerWrite(r, TRUE)
    \/ \E r \in Callers : CallerReceive(r)

SpecNameless == Init /\ [][NextNameless]_vars

\* the steps of a read loop that change nothing but the loop's own position
NoEffect ==
    UNCHANGED <<handlers, handlersOnce, invoked, fired, requestResponseCh, respCh,
                wire, conn, ctxCause, transport, caller, panicked>>

\* C33: a message without an event name that has no request id, or a request
\* id that is not a key of the pending-request map when it is looked up, has
\* no effect: the read loop calls no handler and no error observer, writes
\* nothing, changes no handler table, no pending request and no response
\* channel, leaves the connection open and goes back to reading.
C33_NamelessMessageNoEffect ==
    /\ [](\A c \in Clients :
            (InFlight(c) /\ EventName(rl[c].msg) = "") =>
                /\ rl[c].h = NoHandler /\ rl[c].calls = 0 /\ rl[c].wrote = 0
                /\ rl[c].pc \in {"emitmsg", "resp", "send", "closech", "handled"}
                /\ rl[c].msg.i = 0 => rl[c].pc \in {"emitmsg", "handled"})
    /\ [][\A c \in Clients :
            LET m == rl[c].msg
            IN  (InFlight(c) /\ EventName(m) = "" /\ rl'[c] # rl[c]) =>
                    /\ rl[c].pc = "emitmsg" =>
                          /\ rl'[c].pc = IF m.i = 0 THEN "handled" ELSE "resp"
                          /\ NoEffect
                    /\ (rl[c].pc = "resp"
                        /\ (m.i \notin ReqIds \/ requestResponseCh[m.i] = 0)) =>
                          /\ rl'[c].pc = "handled" /\ rl'[c].rch = 0
                          /\ NoEffect
                    /\ (rl[c].pc = "handled" /\ rl[c].rch = 0) =>
                          /\ rl'[c].pc = "read"
                          /\ NoEffect]_vars

\* a response to request 1 was delivered and a second message with the id 1
\* came to nothing: request 2 is still pending, the registered observer of
\* "error" was not called and the connection is open
C33_AnsweredIdDiscarded ==
    \E c \in Clients :
        /\ rl[c].pc = "handled" /\ rl[c].rch = 0
        /\ rl[c].msg.i = 1 /\ EventName(rl[c].msg) = ""
        /\ nread = 2
        /\ \E r \in Callers : caller[r].id = 1 /\ caller[r].out.via = "respCh"
        /\ requestResponseCh[1] = 0
        /\ requestResponseCh[2] # 0
        /\ handlers[c][handlerName(MainChannel, EventError)] # NoHandler
        /\ fired[c] = <<>>
        /\ conn[c] # Nil /\ transport[c].closes = 0

(***************************************************************************)
(* Message.Response on its own: goroutines call it on messages with and    *)
(* without a request id, with and without data, and with an error that is  *)
(* unset, a string, a number, or an object whose "message" is a string, a  *)
(* number or missing, flagged as a JavaScript error or not.                *)
(***************************************************************************)
ResponseErrors ==
    {NilVal, StrV("boom"), IntV(4), Obj(<<StrV("js boom")>>), Obj(<<IntV(4)>>),
     Obj(<<>>)}
ResponseInputs ==
    {Message("", <<>>, i, d, e, js, "nil") :
        i \in {0, 1}, d \in {NilVal, StrV("ok")}, e \in ResponseErrors,
        js \in BOOLEAN}

NextResponse == \E r \in Callers, m \in ResponseInputs : MessageResponse(r, m)

SpecResponse == Init /\ [][NextResponse]_vars

\* C34: Message.Response returns "message is not a response" without a
\* request id; the data and a nil error when the error is unset; for a
\* flagged error the "message" string of the error object, or a malformed-
\* JavaScript-error failure when the error is no object or its message no
\* string; otherwise the error string, or a failure when the error is no
\* string.  Data and error are never both set.
C34_ResponseCases ==
    \A r \in Callers :
        LET out == caller[r].out
            m == out.from.m
        IN  (caller[r].pc = "done" /\ out.via = "Response") =>
                /\ ~(out.data # NilVal /\ out.err # NoErr)
                /\ m.i = 0 => out.err = "message is not a response"
                /\ (m.i # 0 /\ m.e = NilVal) => (out.data = m.d /\ out.err = NoErr)
                /\ (m.i # 0 /\ m.e # NilVal) => out.data = NilVal
                /\ (m.i # 0 /\ m.e # NilVal /\ m.js) =>
                      out.err =
                        IF m.e.t # "object"
                        THEN "response is a malformed JavaScript error: not an object"
                        ELSE IF m.e.e = <<>> \/ m.e.e[1].t # "string"
                        THEN "response is a malformed JavaScript error: message key is not a string"
                        ELSE m.e.e[1].s
                /\ (m.i # 0 /\ m.e # NilVal /\ ~m.js) =>
                      out.err = IF m.e.t = "string" THEN m.e.s
                                ELSE "response error is not a string"

\* Response was called on a response carrying data and a flagged error
\* object, and on one carrying data and a number as its error: the first
\* gave the object's message, the second the failure, both without data
C34_ErrorsWithoutData ==
    \E r, q \in Callers :
        /\ caller[r].pc = "done" /\ caller[r].out.via = "Response"
        /\ caller[r].out.from.m.d = StrV("ok")
        /\ caller[r].out.from.m.e = Obj(<<StrV("js boom")>>)
        /\ caller[r].out.err = "js boom"
        /\ caller[r].out.data = NilVal
        /\ caller[q].pc = "done" /\ caller[q].out.via = "Response"
        /\ caller[q].out.from.m.d = StrV("ok")
        /\ caller[q].out.from.m.e = IntV(4)
        /\ caller[q].out.err = "response error is not a string"

\* C35: every operation releases the locks it took before it returns.  The
\* sections under a client's dataMu are single steps, so between steps no
\* goroutine is inside one and the lock is free, whatever Close calls were
\* made on the client: a later Get, Set, Emit, Request or Close can take it.
C35_DataLockReleased == \A c \in Clients : dataMu[c] = "free"

\* C36: a response resolves a pending request only on the client the request
\* was sent on: what a response channel holds, and what its caller took from
\* it, was delivered by the read loop of the caller's own client, and a read
\* loop deletes a pending entry only for a request sent on its client.
C36_ResponseFromOwnClient ==
    /\ [](\A r \in Callers :
            /\ \A k \in 1..Len(respCh[r].buf) :
                  respCh[r].buf[k].from.kind = "response" =>
                      respCh[r].buf[k].from.c = caller[r].c
            /\ (caller[r].pc = "done" /\ caller[r].out.via = "respCh"
                /\ caller[r].out.from.kind = "response") =>
                      caller[r].out.from.c = caller[r].c)
    /\ [][\A c \in Clients, i \in ReqIds :
            (rl[c].pc = "resp" /\ rl'[c].pc # "resp"
             /\ requestResponseCh[i] # 0 /\ requestResponseCh'[i] = 0) =>
                caller[requestResponseCh[i]].c = c]_vars

\* C37: the read loop that Accept starts never calls ReadMessage through a
\* transport reference that a Close has cleared: when it is about to read it
\* holds a transport, and no ReadMessage call ends in a nil dereference.
C37_ReadLoopHasTransport ==
    /\ \A c \in Clients : rl[c].pc = "read" => rl[c].conn # Nil
    /\ panicked # "invalid memory address or nil pointer dereference"

\* C38: for every client, the call of the server's open observers for it
\* comes before every call of the server's close observers for it.
C38_OpenBeforeClose ==
    \A c \in Clients :
        \A j, k \in 1..Len(fired[c]) :
            (/\ fired[c][j].owner = Server /\ fired[c][j].ev = EventOpen
             /\ fired[c][k].owner = Server /\ fired[c][k].ev = EventClose) => j < k

(***************************************************************************)
(* Reserved names from the remote end: close observers are registered on   *)
(* the client and on the server with On or Once, and the remote end sends  *)
(* events and requests named "close" on the main channel.  Every write     *)
(* succeeds and nothing closes the client.                                 *)
(***************************************************************************)
ReservedInbound ==
    {m \in InboundEvents : m.c = MainChannel /\ IsReservedEvent(EventName(m))}

NextReservedInbound ==
    \/ AcceptFirst
    \/ \E c \in Clients : AcceptEmitOpen(c)
    \/ \E o \in Owners, once \in BOOLEAN :
          OnAccepted(o, once, MainChannel, EventClose, HCloseObserver)
    \/ \E c \in Clients : RlStartAccepted(c)
    \/ \E c \in Clients, m \in ReservedInbound : RlRead(c, m)
    \/ \E c \in Clients : RlEmitMessage(c)
    \/ \E c \in Clients : RlLookupC(c)
    \/ \E c \in Clients : RlLookupS(c)
    \/ \E c \in Clients : RlCall(c, FALSE)
    \/ \E c \in Clients : RlReply(c)
    \/ \E c \in Clients : RlWrite(c, TRUE)
    \/ \E c \in Clients : RlNext(c)

SpecReservedInbound == Init /\ [][NextReservedInbound]_vars

\* C39: the dispatch of an inbound message of the main channel whose event
\* name is a reserved lifecycle name calls no lifecycle observer and takes
\* no observer out of a once table.
C39_ReservedNotDispatched ==
    [][\A c \in Clients :
        (/\ rl[c].pc \in {"lookupC", "lookupS", "call"}
         /\ rl'[c] # rl[c]
         /\ rl[c].msg.c = MainChannel
         /\ IsReservedEvent(EventName(rl[c].msg))) =>
            UNCHANGED <<handlersOnce, invoked, fired>>]_vars

\* Server.Close has closed every client and stands before the section it
\* runs under requestMu
AtAbort(k) == sclose[k].pc = "loop" /\ sclose[k].todo = {}

\* a send on response channel r completes at once: the channel is open and
\* its buffer has room, whether or not anybody receives
SendCompletes(r) == ~respCh[r].closed /\ Len(respCh[r].buf) < ChanCap

\* C40: delivering an outcome to a pending request never waits for a
\* receiver.  Whenever the read loop is about to send a response, and
\* whenever Server.Close is about to send the abort to the pending requests,
\* each channel concerned is open with room in its buffer, whatever the
\* requesting caller is doing (waiting, or returned after a cancellation or
\* a close of the client); Server.Close is never left blocked holding
\* requestMu.
C40_DeliveryNeverBlocks ==
    /\ \A c \in Clients :
          rl[c].pc = "send" => rl[c].rch # 0 /\ SendCompletes(rl[c].rch)
    /\ \A k \in 1..MaxServerCloses :
          /\ AtAbort(k) =>
                \A i \in Pending : SendCompletes(requestResponseCh[i])
          /\ sclose[k].pc # "blocked"
    /\ panicked # "send on closed channel"

\* C40 happens in the read loop: the caller returned on its cancelled
\* context, and afterwards the read loop delivered the response into the
\* channel nobody receives from, and went on
C40_ResponseAfterCancel ==
    /\ caller[1].pc = "done"
    /\ caller[1].out.via = "ctx"
    /\ respCh[1].sent = 1
    /\ Len(respCh[1].buf) = 1
    /\ respCh[1].buf[1].from.kind = "response"
    /\ \E c \in Clients : rl[c].pc = "read" /\ rl[c].rch = 0 /\ nread > 0

\* C40 happens in Server.Close: the caller returned because its client was
\* closed, and afterwards Server.Close delivered the abort into the channel
\* nobody receives from, and finished
C40_AbortAfterReturn ==
    /\ caller[1].pc = "done"
    /\ caller[1].out.via \in {"ctx", "ctxClient"}
    /\ respCh[1].sent = 1
    /\ Len(respCh[1].buf) = 1
    /\ respCh[1].buf[1].from.kind = "abort"
    /\ sclose[1].pc = "done"
    /\ requestMu = "free"
====
